---- MODULE Spec2Model ----
(***************************************************************************)
(* Model of the build/deploy command resolution of serverless-sample-tester *)
(* (package lifecycle: README parsing, NewLifecycle, Lifecycle.Execute) and *)
(* of the application flow of cmd.Root that executes the Lifecycle.         *)
(*                                                                          *)
(* A Go string is a sequence of one-character strings, so that substring    *)
(* tests, regular expressions, trimming and splitting are computed the way  *)
(* the code computes them.  A Go error is the chain of its %w wrappers,     *)
(* outermost first; <<>> is the nil error.                                  *)
(***************************************************************************)
EXTENDS Integers, Sequences, FiniteSets, TLC

VARIABLES
    pc,          \* position of the modelled flow
    env,         \* the process environment: a function from names to values
    readme,      \* the README file: [exists, openOK, lines, scanErr]
    extracted,   \* what extractCodeBlocks returned: [blocks, err]
    cloudbuild,  \* the cloudbuild.yaml file: [exists, kind]
    pomE,        \* pom.xml exists
    dockerfileE, \* Dockerfile exists
    ret,         \* what NewLifecycle returned: [lifecycle, cleanup, err, panicked]
    consulted,   \* the sources NewLifecycle consulted, in order, each with the error it gave
    tempFile,    \* the temporary Cloud Build config: "none", "present", "removed"
    l,           \* the Lifecycle being executed by Root
    i,           \* loop index of Lifecycle.Execute
    executed,    \* indices of l handed to util.ExecCommand, in order
    outcomes,    \* outcomes[k] is TRUE iff the k-th executed command succeeded
    execErr,     \* what Lifecycle.Execute returned
    deferred,    \* Root's stack of deferred calls, last registered first
    teardowns,   \* teardown calls that have run, in order
    rootErr,     \* what Root returned
    codeBlock,   \* the codeBlock toCommands is called on
    commands,    \* what toCommands returned: [cmds, err]
    parsed,      \* what extractLifecycle returned: [lifecycle, err]
    program,     \* the name replaceServiceName is called with
    arguments,   \* the args slice replaceServiceName is called with, changed in place
    argsIn,      \* the args slice as it was when replaceServiceName was called
    earlier,     \* the tagged code blocks the README holds before codeBlock
    text,        \* the line gcrURLRegexp.ReplaceAllString is called on
    once,        \* the line after the substitution
    twice        \* the line after the substitution of the substituted line

\* the state of the command assembly
asmVars == <<codeBlock, commands, parsed, program, arguments, argsIn, earlier, text, once, twice>>

vars == <<pc, env, readme, extracted, cloudbuild, pomE, dockerfileE, ret, consulted,
          tempFile, l, i, executed, outcomes, execErr, deferred, teardowns, rootErr, asmVars>>

----------------------------------------------------------------------------
(* Bounds *)

\* longest document handed to extractCodeBlocks, in lines
MaxDocLen == 7
\* longest README on disk when NewLifecycle runs, in lines
MaxReadmeLen == 4
\* longest Lifecycle handed to Execute
MaxCmds == 3
\* longest args slice handed to replaceServiceName
MaxArgs == 4
\* longest codeBlock handed to toCommands, in lines
MaxBlockLen == 3
\* most tagged code blocks a README holds before the last one
MaxEarlier == 1
\* longest line handed to the registry-URL substitution, in pieces
MaxPieces == 4

----------------------------------------------------------------------------
(* Strings *)

Min(S) == CHOOSE x \in S : \A y \in S : x <= y
Max(S) == CHOOSE x \in S : \A y \in S : x >= y

\* \w of Go's regexp syntax: [0-9A-Za-z_]
WordChars ==
    {"a","b","c","d","e","f","g","h","i","j","k","l","m","n","o","p","q","r","s","t","u","v","w","x","y","z",
     "A","B","C","D","E","F","G","H","I","J","K","L","M","N","O","P","Q","R","S","T","U","V","W","X","Y","Z",
     "0","1","2","3","4","5","6","7","8","9","_"}

\* the backquote character, which a TLA+ string cannot hold
BQ == "backquote"

\* white space as strings.TrimSpace sees it
SpaceChars == {" ", "\t"}

NoErr == <<>>

\* fmt.Errorf("...: %w", err)
Wrap(ctx, err) == <<ctx>> \o err

\* errors.Is(err, target)
ErrorsIs(err, target) == \E k \in 1..Len(err) : err[k] = target

\* strings.Contains(s, sub)
Contains(s, sub) ==
    \E k \in 0..(Len(s) - Len(sub)) : SubSeq(s, k + 1, k + Len(sub)) = sub

\* strings.Count(s, c) for a one-character c
Count(s, c) == Cardinality({k \in 1..Len(s) : s[k] = c})

\* strings.TrimSpace(s)
TrimSpace_noTrim(s) == s

TrimSpace(s) ==
    LET keep == {k \in 1..Len(s) : s[k] \notin SpaceChars}
    IN  IF keep = {} THEN <<>> ELSE SubSeq(s, Min(keep), Max(keep))

----------------------------------------------------------------------------
(* README parsing: extractCodeBlocks *)

\* the tag {sst-run-unix}
codeTag == <<"{","s","s","t","-","r","u","n","-","u","n","i","x","}">>

errCodeBlockNotClosed == "unexpected EOF: code block not closed"
errCodeBlockStartNotFound == "expecting start of code block immediately after code tag"
errEOFAfterCodeTag == "unexpected EOF: file ended immediately after code tag"
errNoReadmeCodeBlocksFound == "lifecycle.extractCodeBlocks: no code blocks immediately preceded by {sst-run-unix} found"
errCodeBlockEndAfterLineCont == "end of code block: expecting command line continuation"
\* a non-nil bufio.Scanner.Err()
errScanner == "bufio.Scanner.Scan"

\* the positions of the backticks of s
Backticks(s) == {k \in 1..Len(s) : s[k] = BQ}

\* the backticks of s form one run that only word characters precede
FenceHead(s) ==
    /\ Backticks(s) # {}
    /\ Backticks(s) = Min(Backticks(s))..Max(Backticks(s))
    /\ \A k \in 1..(Min(Backticks(s)) - 1) : s[k] \in WordChars

\* mdCodeFenceStartRegexp: ^\w*`{3,}[^`]*$
MatchFenceStart(s) ==
    /\ FenceHead(s)
    /\ Cardinality(Backticks(s)) >= 3

\* MatchFenceEnd, had any fence of three backticks or more closed the block
MatchFenceEnd_anyRun(s, c) ==
    /\ FenceHead(s)
    /\ Cardinality(Backticks(s)) >= 3
    /\ \A k \in (Max(Backticks(s)) + 1)..Len(s) : s[k] \in WordChars

\* mdCodeFenceEndRegexp for an opening fence with c backticks: ^\w*`{c,}\w*$
MatchFenceEnd(s, c) ==
    /\ FenceHead(s)
    /\ Cardinality(Backticks(s)) >= c
    /\ \A k \in (Max(Backticks(s)) + 1)..Len(s) : s[k] \in WordChars

\* The error of the line that follows the code tag at line t, NoErr when it
\* opens a code block.  scanErr: the scanner stops with an error, not at EOF.
AfterTagErr_swapped(lines, t, scanErr) ==
    IF t + 1 > Len(lines)
    THEN IF scanErr THEN <<"line", errScanner>> ELSE <<errCodeBlockNotClosed>>
    ELSE IF ~MatchFenceStart(lines[t + 1])
         THEN <<"line", errCodeBlockStartNotFound>>
         ELSE NoErr

AfterTagErr(lines, t, scanErr) ==
    IF t + 1 > Len(lines)
    THEN IF scanErr THEN <<"line", errScanner>> ELSE <<errEOFAfterCodeTag>>
    ELSE IF ~MatchFenceStart(lines[t + 1])
         THEN <<"line", errCodeBlockStartNotFound>>
         ELSE NoErr

\* The inner loop: accumulates the trimmed lines from line k on until one
\* matches the closing fence.  next is the line after the closing fence.
RECURSIVE ScanBlock(_, _, _, _)
ScanBlock(lines, k, c, block) ==
    IF k > Len(lines)
    THEN [closed |-> FALSE, block |-> block, next |-> k]
    ELSE LET line == TrimSpace(lines[k])
         IN  IF MatchFenceEnd(line, c)
             THEN [closed |-> TRUE, block |-> block, next |-> k + 1]
             ELSE ScanBlock(lines, k + 1, c, Append(block, line))

\* The outer loop from line k on, blocks being the blocks collected so far.
RECURSIVE ScanLines(_, _, _, _)
ScanLines(lines, scanErr, k, blocks) ==
    IF k > Len(lines)
    THEN IF scanErr
         THEN [blocks |-> <<>>, err |-> <<"line", errScanner>>]
         ELSE [blocks |-> blocks, err |-> NoErr]
    ELSE IF Contains(lines[k], codeTag)
         THEN IF AfterTagErr(lines, k, scanErr) # NoErr
              THEN [blocks |-> <<>>, err |-> AfterTagErr(lines, k, scanErr)]
              ELSE LET c == Count(lines[k + 1], BQ)
                       b == ScanBlock(lines, k + 2, c, <<>>)
                   IN  IF ~b.closed /\ scanErr
                       THEN [blocks |-> <<>>, err |-> <<"line", errScanner>>]
                       ELSE IF ~b.closed
                            THEN [blocks |-> <<>>, err |-> <<errCodeBlockNotClosed>>]
                            ELSE ScanLines(lines, scanErr, b.next, Append(blocks, b.block))
         ELSE ScanLines(lines, scanErr, k + 1, blocks)

\* extractCodeBlocks over a scanner that yields lines and then stops, at EOF
\* or (scanErr) with an error
extractCodeBlocks(lines, scanErr) == ScanLines(lines, scanErr, 1, <<>>)

----------------------------------------------------------------------------
(* Documents *)

TagLine == <<"[","/","/","]",":"," ","#"," ","(","{","s","s","t","-","r","u","n","-","u","n","i","x","}",")">>
Fence3 == <<BQ,BQ,BQ>>
Fence4 == <<BQ,BQ,BQ,BQ>>
EchoLine == <<"e","c","h","o"," ","h","i">>
PaddedLine == <<" "," ","l","s"," ","-","a"," ">>
ContLine == <<"e","c","h","o"," ","a"," ","\\">>
BlankLine == <<>>

\* the lines the documents handed to extractCodeBlocks are made of
DocLines == {TagLine, Fence3, Fence4, PaddedLine}

\* the lines the READMEs on disk are made of
ReadmeLines == {TagLine, Fence3, EchoLine, ContLine, BlankLine}

RECURSIVE SeqsUpTo(_, _)
SeqsUpTo(S, n) ==
    IF n = 0 THEN {<<>>}
    ELSE LET shorter == SeqsUpTo(S, n - 1)
         IN  shorter \cup {Append(s, x) : s \in {t \in shorter : Len(t) = n - 1}, x \in S}

Docs == SeqsUpTo(DocLines, MaxDocLen)

Readmes == SeqsUpTo(ReadmeLines, MaxReadmeLen)

----------------------------------------------------------------------------
(* Environment and commands *)

\* os.Getenv on the environment e, a function from some names to values
Getenv(e, name) == IF name \in DOMAIN e THEN e[name] ELSE <<>>

\* the variable names of package os
ShellSpecialVars == {"*","#","$","@","!","?","-","0","1","2","3","4","5","6","7","8","9"}

\* os.getShellName: the name that starts s (s follows a dollar sign) and the
\* number of characters it takes
getShellName(s) ==
    IF s[1] = "{"
    THEN IF Len(s) > 2 /\ s[2] \in ShellSpecialVars /\ s[3] = "}"
         THEN [name |-> SubSeq(s, 2, 2), w |-> 3]
         ELSE LET closing == {k \in 2..Len(s) : s[k] = "}"}
              IN  IF closing = {} THEN [name |-> <<>>, w |-> 1]
                  ELSE IF Min(closing) = 2 THEN [name |-> <<>>, w |-> 2]
                  ELSE [name |-> SubSeq(s, 2, Min(closing) - 1), w |-> Min(closing)]
    ELSE IF s[1] \in ShellSpecialVars
         THEN [name |-> SubSeq(s, 1, 1), w |-> 1]
         ELSE LET stop == {k \in 1..Len(s) : s[k] \notin WordChars}
                  n == IF stop = {} THEN Len(s) ELSE Min(stop) - 1
              IN  [name |-> SubSeq(s, 1, n), w |-> n]

\* os.Expand from position j on
RECURSIVE ExpandFrom(_, _, _)
ExpandFrom(s, j, e) ==
    IF j > Len(s) THEN <<>>
    ELSE IF s[j] = "$" /\ j + 1 <= Len(s)
         THEN LET n == getShellName(SubSeq(s, j + 1, Len(s)))
                  out == IF n.name = <<>> /\ n.w > 0 THEN <<>>
                         ELSE IF n.name = <<>> THEN <<"$">>
                         ELSE Getenv(e, n.name)
              IN  out \o ExpandFrom(s, j + n.w + 1, e)
         ELSE <<s[j]>> \o ExpandFrom(s, j + 1, e)

\* os.ExpandEnv(s) in the environment e
ExpandEnv(s, e) == ExpandFrom(s, 1, e)

\* \S of Go's regexp syntax
NonSpace(c) == c \notin {" ", "\t", "\n", "\r", "\f"}

\* GcrMatchEnd, had the match ended with the first character after the slash
GcrMatchEnd_oneChar(s, p) ==
    IF /\ p + 6 <= Len(s)
       /\ SubSeq(s, p, p + 2) = <<"g","c","r">>
       /\ SubSeq(s, p + 4, p + 6) = <<"i","o","/">>
    THEN LET slashes == {q \in (p + 8)..(Len(s) - 1) : s[q] = "/" /\ NonSpace(s[q + 1])}
         IN  IF slashes = {} THEN 0 ELSE Max(slashes) + 1
    ELSE 0

\* gcrURLRegexp, gcr.io/.+/\S+, matched at position p of s: 0 when there is
\* no match at p, else the position of the last character of the match (the
\* greedy .+ runs to the last slash that a non-space character follows)
GcrMatchEnd(s, p) ==
    IF /\ p + 6 <= Len(s)
       /\ SubSeq(s, p, p + 2) = <<"g","c","r">>
       /\ SubSeq(s, p + 4, p + 6) = <<"i","o","/">>
    THEN LET slashes == {q \in (p + 8)..(Len(s) - 1) : s[q] = "/" /\ NonSpace(s[q + 1])}
         IN  IF slashes = {} THEN 0
             ELSE LET q == Max(slashes)
                      stop == {k \in (q + 1)..Len(s) : ~NonSpace(s[k])}
                  IN  IF stop = {} THEN Len(s) ELSE Min(stop) - 1
    ELSE 0

\* gcrURLRegexp.ReplaceAllString(s, gcrURL) from position p on
RECURSIVE ReplaceGCRFrom(_, _, _)
ReplaceGCRFrom(s, p, gcrURL) ==
    IF p > Len(s) THEN <<>>
    ELSE IF GcrMatchEnd(s, p) > 0
         THEN gcrURL \o ReplaceGCRFrom(s, GcrMatchEnd(s, p) + 1, gcrURL)
         ELSE <<s[p]>> \o ReplaceGCRFrom(s, p + 1, gcrURL)

ReplaceGCRURL(s, gcrURL) == ReplaceGCRFrom(s, 1, gcrURL)

\* strings.Split(s, " ")
RECURSIVE Split(_)
Split(s) ==
    LET sp == {k \in 1..Len(s) : s[k] = " "}
    IN  IF sp = {} THEN <<s>>
        ELSE <<SubSeq(s, 1, Min(sp) - 1)>> \o Split(SubSeq(s, Min(sp) + 1, Len(s)))

\* util.GcloudCommonFlags
GcloudCommonFlags == << <<"-","-","q","u","i","e","t">> >>

\* exec.Command(name, args...); NilCmd is a nil *exec.Cmd
Command(name, args) == [isNil |-> FALSE, name |-> name, args |-> args]
NilCmd == [isNil |-> TRUE, name |-> <<>>, args |-> <<>>]

\* replaceServiceName, had the verb rule taken the last verb instead of the first
replaceServiceName_lastVerb(name, args, serviceName, e) ==
    IF ~Contains(name, <<"g","c","l","o","u","d">>) THEN args
    ELSE LET sentinel == ExpandEnv(<<"$","C","L","O","U","D","_","R","U","N","_","S","E","R","V","I","C","E","_","N","A","M","E">>, e)
             stops == {k \in 1..Len(args) : args[k] = sentinel \/ args[k] = <<"r","u","n">>}
             verbs == {k \in 1..(Len(args) - 1) : args[k] = <<"d","e","p","l","o","y">> \/ args[k] = <<"u","p","d","a","t","e">>}
             plain == {k \in 1..Len(args) : ~Contains(args[k], <<"-","-">>)}
         IN  IF stops = {} THEN args
             ELSE IF args[Min(stops)] = sentinel
                  THEN [args EXCEPT ![Min(stops)] = serviceName]
             ELSE IF verbs # {}
                  THEN [args EXCEPT ![Max(verbs) + 1] = serviceName]
             ELSE IF plain # {}
                  THEN [args EXCEPT ![Max(plain)] = serviceName]
             ELSE args

\* replaceServiceName, had the failsafe taken the last argument whatever it holds
replaceServiceName_lastArg(name, args, serviceName, e) ==
    IF ~Contains(name, <<"g","c","l","o","u","d">>) THEN args
    ELSE LET sentinel == ExpandEnv(<<"$","C","L","O","U","D","_","R","U","N","_","S","E","R","V","I","C","E","_","N","A","M","E">>, e)
             stops == {k \in 1..Len(args) : args[k] = sentinel \/ args[k] = <<"r","u","n">>}
             verbs == {k \in 1..(Len(args) - 1) : args[k] = <<"d","e","p","l","o","y">> \/ args[k] = <<"u","p","d","a","t","e">>}
             plain == {k \in 1..Len(args) : ~Contains(args[k], <<"-","-">>)}
         IN  IF stops = {} THEN args
             ELSE IF args[Min(stops)] = sentinel
                  THEN [args EXCEPT ![Min(stops)] = serviceName]
             ELSE IF verbs # {}
                  THEN [args EXCEPT ![Min(verbs) + 1] = serviceName]
             ELSE IF plain # {}
                  THEN [args EXCEPT ![Len(args)] = serviceName]
             ELSE args

\* replaceServiceName, had it replaced every argument that equals the
\* expansion of $CLOUD_RUN_SERVICE_NAME
replaceServiceName_everySentinel(name, args, serviceName, e) ==
    IF ~Contains(name, <<"g","c","l","o","u","d">>) THEN args
    ELSE LET sentinel == ExpandEnv(<<"$","C","L","O","U","D","_","R","U","N","_","S","E","R","V","I","C","E","_","N","A","M","E">>, e)
             stops == {k \in 1..Len(args) : args[k] = sentinel \/ args[k] = <<"r","u","n">>}
             verbs == {k \in 1..(Len(args) - 1) : args[k] = <<"d","e","p","l","o","y">> \/ args[k] = <<"u","p","d","a","t","e">>}
             plain == {k \in 1..Len(args) : ~Contains(args[k], <<"-","-">>)}
         IN  IF stops = {} THEN args
             ELSE IF args[Min(stops)] = sentinel
                  THEN [k \in 1..Len(args) |-> IF args[k] = sentinel THEN serviceName ELSE args[k]]
             ELSE IF verbs # {}
                  THEN [args EXCEPT ![Min(verbs) + 1] = serviceName]
             ELSE IF plain # {}
                  THEN [args EXCEPT ![Max(plain)] = serviceName]
             ELSE args

\* replaceServiceName: the argument list as the call leaves it
replaceServiceName(name, args, serviceName, e) ==
    IF ~Contains(name, <<"g","c","l","o","u","d">>) THEN args
    ELSE LET sentinel == ExpandEnv(<<"$","C","L","O","U","D","_","R","U","N","_","S","E","R","V","I","C","E","_","N","A","M","E">>, e)
             stops == {k \in 1..Len(args) : args[k] = sentinel \/ args[k] = <<"r","u","n">>}
             verbs == {k \in 1..(Len(args) - 1) : args[k] = <<"d","e","p","l","o","y">> \/ args[k] = <<"u","p","d","a","t","e">>}
             plain == {k \in 1..Len(args) : ~Contains(args[k], <<"-","-">>)}
         IN  IF stops = {} THEN args
             ELSE IF args[Min(stops)] = sentinel
                  THEN [args EXCEPT ![Min(stops)] = serviceName]
             ELSE IF verbs # {}
                  THEN [args EXCEPT ![Min(verbs) + 1] = serviceName]
             ELSE IF plain # {}
                  THEN [args EXCEPT ![Max(plain)] = serviceName]
             ELSE args

----------------------------------------------------------------------------
(* README parsing: toCommands and extractLifecycle *)

\* JoinCont, had it put a space between the lines it joins
RECURSIVE JoinCont_spaced(_, _, _)
JoinCont_spaced(cb, k, line) ==
    IF line[Len(line)] # "\\"
    THEN [err |-> NoErr, line |-> line, k |-> k]
    ELSE IF k + 1 > Len(cb)
         THEN [err |-> <<errCodeBlockEndAfterLineCont>>, line |-> <<>>, k |-> k + 1]
         ELSE IF cb[k + 1] = <<>>
              THEN [err |-> NoErr, line |-> SubSeq(line, 1, Len(line) - 1), k |-> k + 1]
              ELSE JoinCont_spaced(cb, k + 1, SubSeq(line, 1, Len(line) - 1) \o <<" ">> \o cb[k + 1])

\* JoinCont, had a blank line after the continuation character been an error
RECURSIVE JoinCont_blankFails(_, _, _)
JoinCont_blankFails(cb, k, line) ==
    IF line[Len(line)] # "\\"
    THEN [err |-> NoErr, line |-> line, k |-> k]
    ELSE IF k + 1 > Len(cb) \/ cb[k + 1] = <<>>
         THEN [err |-> <<errCodeBlockEndAfterLineCont>>, line |-> <<>>, k |-> k + 1]
         ELSE JoinCont_blankFails(cb, k + 1, SubSeq(line, 1, Len(line) - 1) \o cb[k + 1])

\* JoinCont, had it taken the end of the block for the end of the command
RECURSIVE JoinCont_endOK(_, _, _)
JoinCont_endOK(cb, k, line) ==
    IF line[Len(line)] # "\\"
    THEN [err |-> NoErr, line |-> line, k |-> k]
    ELSE IF k + 1 > Len(cb) \/ cb[k + 1] = <<>>
         THEN [err |-> NoErr, line |-> SubSeq(line, 1, Len(line) - 1), k |-> k + 1]
         ELSE JoinCont_endOK(cb, k + 1, SubSeq(line, 1, Len(line) - 1) \o cb[k + 1])

\* The continuation loop of toCommands: line is the line read so far and k
\* the index of the last line of the block taken.
RECURSIVE JoinCont(_, _, _)
JoinCont(cb, k, line) ==
    IF line[Len(line)] # "\\"
    THEN [err |-> NoErr, line |-> line, k |-> k]
    ELSE IF k + 1 > Len(cb)
         THEN [err |-> <<errCodeBlockEndAfterLineCont>>, line |-> <<>>, k |-> k + 1]
         ELSE IF cb[k + 1] = <<>>
              THEN [err |-> NoErr, line |-> SubSeq(line, 1, Len(line) - 1), k |-> k + 1]
              ELSE JoinCont(cb, k + 1, SubSeq(line, 1, Len(line) - 1) \o cb[k + 1])

\* LineCommand, had it split the line before it expands the variables
LineCommand_splitFirst(line, serviceName, gcrURL, e) ==
    LET sp0 == Split(line)
        sp == [k \in 1..Len(sp0) |-> ReplaceGCRURL(ExpandEnv(sp0[k], e), gcrURL)]
        args == replaceServiceName(sp[1], Tail(sp), serviceName, e)
    IN  IF sp[1] = <<"g","c","l","o","u","d">>
        THEN Command(<<"g","c","l","o","u","d">>, GcloudCommonFlags \o args)
        ELSE Command(sp[1], args)

\* LineCommand, had it put the common flags of gcloud after the arguments
LineCommand_flagsLast(line, serviceName, gcrURL, e) ==
    LET sp == Split(ReplaceGCRURL(ExpandEnv(line, e), gcrURL))
        args == replaceServiceName(sp[1], Tail(sp), serviceName, e)
    IN  IF sp[1] = <<"g","c","l","o","u","d">>
        THEN Command(<<"g","c","l","o","u","d">>, args \o GcloudCommonFlags)
        ELSE Command(sp[1], args)

\* The command of one joined line
LineCommand(line, serviceName, gcrURL, e) ==
    LET sp == Split(ReplaceGCRURL(ExpandEnv(line, e), gcrURL))
        args == replaceServiceName(sp[1], Tail(sp), serviceName, e)
    IN  IF sp[1] = <<"g","c","l","o","u","d">>
        THEN Command(<<"g","c","l","o","u","d">>, GcloudCommonFlags \o args)
        ELSE Command(sp[1], args)

\* CommandsFrom, had a blank line been an error
RECURSIVE CommandsFrom_blankFails(_, _, _, _, _, _)
CommandsFrom_blankFails(cb, k, cmds, serviceName, gcrURL, e) ==
    IF k > Len(cb) THEN [cmds |-> cmds, err |-> NoErr]
    ELSE IF cb[k] = <<>> THEN [cmds |-> <<>>, err |-> <<"blank line">>]
    ELSE LET j == JoinCont(cb, k, cb[k])
         IN  IF j.err # NoErr THEN [cmds |-> <<>>, err |-> j.err]
             ELSE CommandsFrom_blankFails(cb, j.k + 1,
                               Append(cmds, LineCommand(j.line, serviceName, gcrURL, e)),
                               serviceName, gcrURL, e)

\* The loop of toCommands from line k of the block on
RECURSIVE CommandsFrom(_, _, _, _, _, _)
CommandsFrom(cb, k, cmds, serviceName, gcrURL, e) ==
    IF k > Len(cb) THEN [cmds |-> cmds, err |-> NoErr]
    ELSE IF cb[k] = <<>> THEN CommandsFrom(cb, k + 1, cmds, serviceName, gcrURL, e)
    ELSE LET j == JoinCont(cb, k, cb[k])
         IN  IF j.err # NoErr THEN [cmds |-> <<>>, err |-> j.err]
             ELSE CommandsFrom(cb, j.k + 1,
                               Append(cmds, LineCommand(j.line, serviceName, gcrURL, e)),
                               serviceName, gcrURL, e)

\* codeBlock.toCommands
toCommands(cb, serviceName, gcrURL, e) == CommandsFrom(cb, 1, <<>>, serviceName, gcrURL, e)

\* AssembleFrom, had it put the commands of a block before those of the blocks before it
RECURSIVE AssembleFrom_reversed(_, _, _, _, _, _)
AssembleFrom_reversed(blocks, b, lc, serviceName, gcrURL, e) ==
    IF b > Len(blocks) THEN [lifecycle |-> lc, err |-> NoErr]
    ELSE LET c == toCommands(blocks[b], serviceName, gcrURL, e)
         IN  IF c.err # NoErr
             THEN [lifecycle |-> lc, err |-> Wrap("codeBlock.toCommands", c.err)]
             ELSE AssembleFrom_reversed(blocks, b + 1, c.cmds \o lc, serviceName, gcrURL, e)

\* The loop of extractLifecycle over the blocks from block b on
RECURSIVE AssembleFrom(_, _, _, _, _, _)
AssembleFrom(blocks, b, lc, serviceName, gcrURL, e) ==
    IF b > Len(blocks) THEN [lifecycle |-> lc, err |-> NoErr]
    ELSE LET c == toCommands(blocks[b], serviceName, gcrURL, e)
         IN  IF c.err # NoErr
             THEN [lifecycle |-> lc, err |-> Wrap("codeBlock.toCommands", c.err)]
             ELSE AssembleFrom(blocks, b + 1, lc \o c.cmds, serviceName, gcrURL, e)

\* extractLifecycle, had it wrapped the error of a README without code blocks in a new error
extractLifecycle_newError(lines, scanErr, serviceName, gcrURL, e) ==
    LET x == extractCodeBlocks(lines, scanErr)
    IN  IF x.err # NoErr
        THEN [lifecycle |-> <<>>, err |-> Wrap("lifecycle.extractCodeBlocks", x.err)]
        ELSE IF Len(x.blocks) = 0
             THEN [lifecycle |-> <<>>, err |-> <<"no code blocks found">>]
             ELSE AssembleFrom(x.blocks, 1, <<>>, serviceName, gcrURL, e)

\* extractLifecycle
extractLifecycle(lines, scanErr, serviceName, gcrURL, e) ==
    LET x == extractCodeBlocks(lines, scanErr)
    IN  IF x.err # NoErr
        THEN [lifecycle |-> <<>>, err |-> Wrap("lifecycle.extractCodeBlocks", x.err)]
        ELSE IF Len(x.blocks) = 0
             THEN [lifecycle |-> <<>>, err |-> <<errNoReadmeCodeBlocksFound>>]
             ELSE AssembleFrom(x.blocks, 1, <<>>, serviceName, gcrURL, e)

\* parseREADME on an existing file; openOK: os.Open succeeds
parseREADME(file, serviceName, gcrURL, e) ==
    IF ~file.openOK
    THEN [lifecycle |-> <<>>, err |-> <<"os.Open", "open">>]
    ELSE extractLifecycle(file.lines, file.scanErr, serviceName, gcrURL, e)

----------------------------------------------------------------------------
(* Cloud Build config resolver *)

\* the inputs NewLifecycle gets from sample.NewSample
ServiceName == <<"s","v","c","-","x">>
GcrURL == <<"g","c","r",".","i","o","/","p","/","t","a","g">>
RunRegion == <<"u","s","-","e","a","s","t","1">>
\* the substitutions, in the order the map yields them
CloudBuildConfSubs == << [k |-> <<"_","A">>, v |-> <<"1">>] >>

\* the name ioutil.TempFile gives the temporary file
TempName == <<"/","t","m","p","/","e","x","a","m","p","l","e","1">>

runRegionSubstitution == <<"_","S","S","T","_","R","U","N","_","R","E","G","I","O","N">>

\* strings.Join(parts, sep)
RECURSIVE Join(_, _)
Join(parts, sep) ==
    IF Len(parts) = 0 THEN <<>>
    ELSE IF Len(parts) = 1 THEN parts[1]
    ELSE parts[1] \o sep \o Join(Tail(parts), sep)

\* substitutionsString
substitutionsString(m, runRegion) ==
    Join(<<runRegionSubstitution \o <<"=">> \o runRegion>>
         \o [k \in 1..Len(m) |-> m[k].k \o <<"=">> \o m[k].v], <<",">>)

\* buildCloudBuildConfigLifecycle
buildCloudBuildConfigLifecycle(buildConfigFilename, runRegion, substitutions) ==
    << Command(<<"g","c","l","o","u","d">>,
               GcloudCommonFlags
               \o << <<"b","u","i","l","d","s">>, <<"s","u","b","m","i","t">>, <<"-","-","c","o","n","f","i","g","=">> \o buildConfigFilename >>
               \o << <<"-","-","s","u","b","s","t","i","t","u","t","i","o","n","s","=">> \o substitutionsString(substitutions, runRegion) >>) >>

\* A parsed Cloud Build config: hasSteps says that config["steps"] is a list;
\* of a step, isMap that it is a map, nameOK that its name is a string, argsOK
\* that its args is a list; of an arg, str that it is a string.
Arg(v) == [str |-> TRUE, val |-> v]
NonStringArg == [str |-> FALSE, val |-> <<>>]
Step(name, args) == [isMap |-> TRUE, nameOK |-> TRUE, name |-> name, argsOK |-> TRUE, args |-> args]

\* the type assertions on a step succeed
StepOK(st) ==
    /\ st.isMap
    /\ st.argsOK
    /\ \A k \in 1..Len(st.args) : st.args[k].str
    /\ st.nameOK

\* a step with the registry URLs and the service name of its args replaced
RewriteStep(st, serviceName, gcrURL, e) ==
    LET args == [k \in 1..Len(st.args) |-> ReplaceGCRURL(st.args[k].val, gcrURL)]
        out == replaceServiceName(st.name, args, serviceName, e)
    IN  [st EXCEPT !.args = [k \in 1..Len(out) |-> Arg(out[k])]]

\* getCloudBuildConfigLifecycle.  io is what happens to the temporary file:
\* "createFail", "writeFail", "closeFail" or "ok".  temp is the state of the
\* temporary file when the call ends, cleanup whether the returned callback
\* is non-nil, panicked whether a type assertion failed.
getCloudBuildConfigLifecycle(file, serviceName, gcrURL, runRegion, substitutions, e, io) ==
    LET none == [lifecycle |-> <<>>, cleanup |-> FALSE, err |-> NoErr,
                 panicked |-> FALSE, temp |-> "none"]
    IN  IF ~file.readOK
        THEN [none EXCEPT !.err = <<"reading Cloud Build config file", "read">>]
        ELSE IF ~file.yamlOK
        THEN [none EXCEPT !.err = <<"unmarshaling Cloud Build config file", "yaml">>]
        ELSE IF ~file.config.hasSteps \/ \E k \in 1..Len(file.config.steps) : ~StepOK(file.config.steps[k])
        THEN [none EXCEPT !.panicked = TRUE]
        ELSE IF io = "createFail"
        THEN [none EXCEPT !.err = <<"creating Temp File", "tempfile">>]
        ELSE IF io = "writeFail"
        THEN [none EXCEPT !.cleanup = TRUE, !.temp = "present",
                          !.err = <<"writing to temporary file", "write">>]
        ELSE IF io = "closeFail"
        THEN [none EXCEPT !.cleanup = TRUE, !.temp = "present",
                          !.err = <<"closing temporary file", "close">>]
        ELSE [none EXCEPT !.cleanup = TRUE, !.temp = "present",
                          !.lifecycle = buildCloudBuildConfigLifecycle(TempName, runRegion, substitutions)]

\* what getCloudBuildConfigLifecycle writes to the temporary file
RewrittenConfig(file, serviceName, gcrURL, e) ==
    [file.config EXCEPT !.steps =
        [k \in 1..Len(file.config.steps) |-> RewriteStep(file.config.steps[k], serviceName, gcrURL, e)]]

----------------------------------------------------------------------------
(* NewLifecycle *)

\* buildDefaultLifecycle
buildDefaultLifecycle(serviceName, gcrURL) ==
    << Command(<<"g","c","l","o","u","d">>, GcloudCommonFlags \o << <<"b","u","i","l","d","s">>, <<"s","u","b","m","i","t">>, <<"-","-","t","a","g","=">> \o gcrURL >>),
       Command(<<"g","c","l","o","u","d">>, GcloudCommonFlags \o << <<"r","u","n">>, <<"d","e","p","l","o","y">>, serviceName,
                                                  <<"-","-","i","m","a","g","e","=">> \o gcrURL, <<"-","-","p","l","a","t","f","o","r","m","=","m","a","n","a","g","e","d">> >>) >>

\* buildDefaultJavaLifecycle
buildDefaultJavaLifecycle(serviceName, gcrURL) ==
    [buildDefaultLifecycle(serviceName, gcrURL) EXCEPT ![1] =
        Command(<<"m","v","n">>, << <<"c","o","m","p","i","l","e">>, <<"c","o","m",".","g","o","o","g","l","e",".","c","l","o","u","d",".","t","o","o","l","s",":","j","i","b","-","m","a","v","e","n","-","p","l","u","g","i","n",":","2",".","0",".","0",":","b","u","i","l","d">>,
                           <<"-","D","i","m","a","g","e","=">> \o gcrURL >>)]

\* The result of NewLifecycle: lifecycle, cleanup (the callback is non-nil)
\* and err are what it returns, panicked says that it did not return;
\* consulted are the sources it went through and temp the state it leaves
\* the temporary file in.
Result(lc, cleanup, err, srcs, temp) ==
    [lifecycle |-> lc, cleanup |-> cleanup, err |-> err, panicked |-> FALSE,
     consulted |-> srcs, temp |-> temp]

\* a source NewLifecycle went through and the error it got from it
Consulted(source, err) == [source |-> source, err |-> err]

\* DefaultsResult, had a pom.xml alone chosen the Java defaults
DefaultsResult_pomOnly(pom, dockerfile, serviceName, gcrURL, srcs) ==
    IF pom
    THEN Result(buildDefaultJavaLifecycle(serviceName, gcrURL), FALSE, NoErr,
                Append(srcs, Consulted("defaults", NoErr)), "none")
    ELSE Result(buildDefaultLifecycle(serviceName, gcrURL), FALSE, NoErr,
                Append(srcs, Consulted("defaults", NoErr)), "none")

\* the last step of NewLifecycle: the defaults
DefaultsResult(pom, dockerfile, serviceName, gcrURL, srcs) ==
    IF pom /\ ~dockerfile
    THEN Result(buildDefaultJavaLifecycle(serviceName, gcrURL), FALSE, NoErr,
                Append(srcs, Consulted("defaults", NoErr)), "none")
    ELSE Result(buildDefaultLifecycle(serviceName, gcrURL), FALSE, NoErr,
                Append(srcs, Consulted("defaults", NoErr)), "none")

\* the second step of NewLifecycle: the README, then the defaults
ReadmeResult(rd, pom, dockerfile, serviceName, gcrURL, e) ==
    IF rd.exists
    THEN LET p == parseREADME(rd, serviceName, gcrURL, e)
         IN  IF p.err = NoErr
             THEN Result(p.lifecycle, FALSE, NoErr, <<Consulted("readme", p.err)>>, "none")
             ELSE IF ~ErrorsIs(p.err, errNoReadmeCodeBlocksFound)
                  THEN Result(<<>>, FALSE, Wrap("lifecycle.parseREADME", p.err),
                              <<Consulted("readme", p.err)>>, "none")
                  ELSE DefaultsResult(pom, dockerfile, serviceName, gcrURL,
                                      <<Consulted("readme", p.err)>>)
    ELSE DefaultsResult(pom, dockerfile, serviceName, gcrURL, <<>>)

\* NewLifecycle, had it looked at the README before cloudbuild.yaml
NewLifecycle_readmeFirst(cb, rd, pom, dockerfile, serviceName, gcrURL, runRegion, cloudBuildConfSubs, e, io) ==
    IF cb.exists /\ ~rd.exists
    THEN LET r == getCloudBuildConfigLifecycle(cb, serviceName, gcrURL, runRegion,
                                               cloudBuildConfSubs, e, io)
         IN  IF r.panicked
             THEN [Result(<<>>, FALSE, NoErr, <<Consulted("cloudbuild", NoErr)>>, r.temp)
                       EXCEPT !.panicked = TRUE]
             ELSE IF r.err = NoErr
                  THEN Result(r.lifecycle, r.cleanup, NoErr, <<Consulted("cloudbuild", NoErr)>>, r.temp)
                  ELSE Result(<<>>, FALSE, Wrap("lifecycle.getCloudBuildConfigLifecycle", r.err),
                              <<Consulted("cloudbuild", r.err)>>, r.temp)
    ELSE ReadmeResult(rd, pom, dockerfile, serviceName, gcrURL, e)

\* NewLifecycle, had it gone on to the README after a failure of the Cloud Build resolver
NewLifecycle_fallThrough(cb, rd, pom, dockerfile, serviceName, gcrURL, runRegion, cloudBuildConfSubs, e, io) ==
    IF cb.exists
    THEN LET r == getCloudBuildConfigLifecycle(cb, serviceName, gcrURL, runRegion,
                                               cloudBuildConfSubs, e, io)
         IN  IF r.panicked
             THEN [Result(<<>>, FALSE, NoErr, <<Consulted("cloudbuild", NoErr)>>, r.temp)
                       EXCEPT !.panicked = TRUE]
             ELSE IF r.err = NoErr
                  THEN Result(r.lifecycle, r.cleanup, NoErr, <<Consulted("cloudbuild", NoErr)>>, r.temp)
                  ELSE ReadmeResult(rd, pom, dockerfile, serviceName, gcrURL, e)
    ELSE ReadmeResult(rd, pom, dockerfile, serviceName, gcrURL, e)

\* NewLifecycle
NewLifecycle(cb, rd, pom, dockerfile, serviceName, gcrURL, runRegion, cloudBuildConfSubs, e, io) ==
    IF cb.exists
    THEN LET r == getCloudBuildConfigLifecycle(cb, serviceName, gcrURL, runRegion,
                                               cloudBuildConfSubs, e, io)
         IN  IF r.panicked
             THEN [Result(<<>>, FALSE, NoErr, <<Consulted("cloudbuild", NoErr)>>, r.temp)
                       EXCEPT !.panicked = TRUE]
             ELSE IF r.err = NoErr
                  THEN Result(r.lifecycle, r.cleanup, NoErr, <<Consulted("cloudbuild", NoErr)>>, r.temp)
                  ELSE Result(<<>>, FALSE, Wrap("lifecycle.getCloudBuildConfigLifecycle", r.err),
                              <<Consulted("cloudbuild", r.err)>>, r.temp)
    ELSE ReadmeResult(rd, pom, dockerfile, serviceName, gcrURL, e)

----------------------------------------------------------------------------
(* Files and initial values *)

\* a README that does not exist, one that cannot be opened, one that holds lines
NoReadme == [exists |-> FALSE, openOK |-> FALSE, lines |-> <<>>, scanErr |-> FALSE]
LockedReadme == [exists |-> TRUE, openOK |-> FALSE, lines |-> <<>>, scanErr |-> FALSE]
ReadmeOf(lines, scanErr) == [exists |-> TRUE, openOK |-> TRUE, lines |-> lines, scanErr |-> scanErr]

ReadmeFiles ==
    {NoReadme, LockedReadme} \cup {ReadmeOf(d, b) : d \in Readmes, b \in BOOLEAN}

Config(steps) == [hasSteps |-> TRUE, steps |-> steps]
NoStepsConfig == [hasSteps |-> FALSE, steps |-> <<>>]

CBFile(readOK, yamlOK, config) ==
    [exists |-> TRUE, readOK |-> readOK, yamlOK |-> yamlOK, config |-> config]
NoCloudBuild == [exists |-> FALSE, readOK |-> FALSE, yamlOK |-> FALSE, config |-> NoStepsConfig]

DeployStep ==
    Step(<<"g","c","r",".","i","o","/","c","l","o","u","d","-","b","u","i","l","d","e","r","s","/","g","c","l","o","u","d">>,
         << Arg(<<"r","u","n">>), Arg(<<"d","e","p","l","o","y">>), Arg(<<"h","e","l","l","o">>), Arg(<<"-","-","i","m","a","g","e","=","g","c","r",".","i","o","/","a","/","b">>) >>)

\* the cloudbuild.yaml files: absent, unreadable, not YAML, without steps,
\* with a step without args, with a non-string arg, and well-formed
CloudBuildFiles ==
    { NoCloudBuild,
      CBFile(FALSE, FALSE, NoStepsConfig),
      CBFile(TRUE, FALSE, NoStepsConfig),
      CBFile(TRUE, TRUE, NoStepsConfig),
      CBFile(TRUE, TRUE, Config(<< [DeployStep EXCEPT !.argsOK = FALSE, !.args = <<>>] >>)),
      CBFile(TRUE, TRUE, Config(<< [DeployStep EXCEPT !.args = <<NonStringArg>>] >>)),
      CBFile(TRUE, TRUE, Config(<< DeployStep >>)) }

\* what can happen to the temporary file
TempIO == {"createFail", "writeFail", "closeFail", "ok"}

\* the environments
NoEnv == [n \in {} |-> <<>>]
Envs == {NoEnv}

NoRet == [lifecycle |-> <<>>, cleanup |-> FALSE, err |-> NoErr, panicked |-> FALSE]
NoExtract == [blocks |-> <<>>, err |-> NoErr]
NoCommands == [cmds |-> <<>>, err |-> NoErr]
NoParse == [lifecycle |-> <<>>, err |-> NoErr]

\* the commands the executed Lifecycles are made of
ExecCmds == {NilCmd, buildDefaultLifecycle(ServiceName, GcrURL)[1], buildDefaultLifecycle(ServiceName, GcrURL)[2]}

\* what cmd.Run can return when it fails
RunErrors == {"exit status 1", "exit status 2"}

\* nothing has run yet
Idle ==
    /\ extracted = NoExtract
    /\ ret = NoRet
    /\ consulted = <<>>
    /\ tempFile = "none"
    /\ i = 1
    /\ executed = <<>>
    /\ outcomes = <<>>
    /\ execErr = NoErr
    /\ deferred = <<>>
    /\ teardowns = <<>>
    /\ rootErr = NoErr

\* no line has been substituted yet, no README put together
NoSubstitution ==
    /\ earlier = <<>>
    /\ text = <<>>
    /\ once = <<>>
    /\ twice = <<>>

\* no command has been assembled yet
NoAssembly ==
    /\ codeBlock = <<>>
    /\ commands = NoCommands
    /\ parsed = NoParse
    /\ program = <<>>
    /\ arguments = <<>>
    /\ argsIn = <<>>
    /\ NoSubstitution

----------------------------------------------------------------------------
(* extractCodeBlocks applied to a document *)

InitExtract ==
    /\ pc = "extract"
    /\ env = NoEnv
    /\ readme \in {ReadmeOf(d, b) : d \in Docs, b \in BOOLEAN}
    /\ cloudbuild = NoCloudBuild
    /\ pomE = FALSE
    /\ dockerfileE = FALSE
    /\ l = <<>>
    /\ Idle
    /\ NoAssembly

ExtractCodeBlocks ==
    /\ pc = "extract"
    /\ extracted' = extractCodeBlocks(readme.lines, readme.scanErr)
    /\ pc' = "extracted"
    /\ UNCHANGED <<asmVars, env, readme, cloudbuild, pomE, dockerfileE, ret, consulted, tempFile,
                   l, i, executed, outcomes, execErr, deferred, teardowns, rootErr>>

NextExtract == ExtractCodeBlocks

SpecExtract == InitExtract /\ [][NextExtract]_vars

----------------------------------------------------------------------------
(* NewLifecycle applied to a sample directory *)

Init ==
    /\ pc = "resolve"
    /\ env \in Envs
    /\ readme \in ReadmeFiles
    /\ cloudbuild \in CloudBuildFiles
    /\ pomE \in BOOLEAN
    /\ dockerfileE \in BOOLEAN
    /\ l = <<>>
    /\ Idle
    /\ NoAssembly

\* NewLifecycle is called and returns, or panics
CallNewLifecycle ==
    /\ pc = "resolve"
    /\ \E io \in TempIO :
         \E r \in {NewLifecycle(cloudbuild, readme, pomE, dockerfileE, ServiceName, GcrURL,
                             RunRegion, CloudBuildConfSubs, env, io)} :
             /\ ret' = [lifecycle |-> r.lifecycle, cleanup |-> r.cleanup, err |-> r.err,
                        panicked |-> r.panicked]
             /\ consulted' = r.consulted
             /\ tempFile' = r.temp
             /\ pc' = IF r.panicked THEN "panicked" ELSE "resolved"
    /\ UNCHANGED <<asmVars, env, readme, extracted, cloudbuild, pomE, dockerfileE,
                   l, i, executed, outcomes, execErr, deferred, teardowns, rootErr>>

\* the caller calls the cleanup callback NewLifecycle returned: os.Remove of
\* the temporary file, whose failure is only logged
Cleanup ==
    /\ pc = "resolved"
    /\ ret.cleanup
    /\ \E removed \in BOOLEAN :
         tempFile' = IF removed /\ tempFile = "present" THEN "removed" ELSE tempFile
    /\ pc' = "cleaned"
    /\ UNCHANGED <<asmVars, env, readme, extracted, cloudbuild, pomE, dockerfileE, ret, consulted,
                   l, i, executed, outcomes, execErr, deferred, teardowns, rootErr>>

Next == CallNewLifecycle \/ Cleanup

Spec == Init /\ [][Next]_vars

----------------------------------------------------------------------------
(* Root executing a Lifecycle *)

\* util.ExecCommand: the error it returns when cmd.Run returns run ("" for nil)
ExecCommand(run) ==
    IF run = "" THEN NoErr ELSE <<"[util.ExecCommand] error executing external command", run>>

InitRoot ==
    /\ pc = "root"
    /\ env = NoEnv
    /\ readme = NoReadme
    /\ cloudbuild = NoCloudBuild
    /\ pomE = FALSE
    /\ dockerfileE = FALSE
    /\ l \in SeqsUpTo(ExecCmds, MaxCmds)
    /\ Idle
    /\ NoAssembly

\* Root up to the call of Execute: sample.NewSample fails or gives the sample
RootSetup ==
    /\ pc = "root"
    /\ \E ok \in BOOLEAN :
         IF ok
         THEN pc' = "execute" /\ rootErr' = rootErr
         ELSE pc' = "returned" /\ rootErr' = <<"sample.NewSample">>
    /\ UNCHANGED <<asmVars, env, readme, extracted, cloudbuild, pomE, dockerfileE, ret, consulted,
                   tempFile, l, i, executed, outcomes, execErr, deferred, teardowns>>

\* ExecuteStep, had the loop gone on after a failed command
ExecuteStep_goOn ==
    /\ pc = "execute"
    /\ i <= Len(l)
    /\ IF l[i].isNil
       THEN /\ i' = i + 1
            /\ UNCHANGED <<pc, executed, outcomes, execErr>>
       ELSE \E run \in {""} \cup RunErrors :
              /\ executed' = Append(executed, i)
              /\ outcomes' = Append(outcomes, ExecCommand(run))
              /\ IF ExecCommand(run) = NoErr
                 THEN /\ i' = i + 1
                      /\ UNCHANGED <<pc, execErr>>
                 ELSE /\ execErr' = Wrap("executing Lifecycle command", ExecCommand(run))
                      /\ pc' = pc
                      /\ i' = i + 1
    /\ UNCHANGED <<asmVars, env, readme, extracted, cloudbuild, pomE, dockerfileE, ret, consulted,
                   tempFile, l, deferred, teardowns, rootErr>>

\* ExecuteStep, had the loop handed nil entries to the executor
ExecuteStep_nilToo ==
    /\ pc = "execute"
    /\ i <= Len(l)
    /\ IF FALSE
       THEN /\ i' = i + 1
            /\ UNCHANGED <<pc, executed, outcomes, execErr>>
       ELSE \E run \in {""} \cup RunErrors :
              /\ executed' = Append(executed, i)
              /\ outcomes' = Append(outcomes, ExecCommand(run))
              /\ IF ExecCommand(run) = NoErr
                 THEN /\ i' = i + 1
                      /\ UNCHANGED <<pc, execErr>>
                 ELSE /\ execErr' = Wrap("executing Lifecycle command", ExecCommand(run))
                      /\ pc' = "executed"
                      /\ i' = i
    /\ UNCHANGED <<asmVars, env, readme, extracted, cloudbuild, pomE, dockerfileE, ret, consulted,
                   tempFile, l, deferred, teardowns, rootErr>>

\* one iteration of the loop of Lifecycle.Execute
ExecuteStep ==
    /\ pc = "execute"
    /\ i <= Len(l)
    /\ IF l[i].isNil
       THEN /\ i' = i + 1
            /\ UNCHANGED <<pc, executed, outcomes, execErr>>
       ELSE \E run \in {""} \cup RunErrors :
              /\ executed' = Append(executed, i)
              /\ outcomes' = Append(outcomes, ExecCommand(run))
              /\ IF ExecCommand(run) = NoErr
                 THEN /\ i' = i + 1
                      /\ UNCHANGED <<pc, execErr>>
                 ELSE /\ execErr' = Wrap("executing Lifecycle command", ExecCommand(run))
                      /\ pc' = "executed"
                      /\ i' = i
    /\ UNCHANGED <<asmVars, env, readme, extracted, cloudbuild, pomE, dockerfileE, ret, consulted,
                   tempFile, l, deferred, teardowns, rootErr>>

\* the loop of Lifecycle.Execute ends: Execute returns nil
ExecuteReturn ==
    /\ pc = "execute"
    /\ i > Len(l)
    /\ execErr' = NoErr
    /\ pc' = "executed"
    /\ UNCHANGED <<asmVars, env, readme, extracted, cloudbuild, pomE, dockerfileE, ret, consulted,
                   tempFile, l, i, executed, outcomes, deferred, teardowns, rootErr>>

\* RootDefer, had the error been looked at before the teardowns are deferred
RootDefer_late ==
    /\ pc = "executed"
    /\ deferred' = IF execErr # NoErr THEN <<>>
                   ELSE <<"Sample.DeleteCloudContainerImage", "Service.Delete">>
    /\ IF execErr # NoErr
       THEN /\ rootErr' = Wrap("Lifecycle.Execute building and deploying sample to Cloud Run", execErr)
            /\ pc' = "unwind"
       ELSE /\ rootErr' = rootErr
            /\ pc' = "identToken"
    /\ UNCHANGED <<asmVars, env, readme, extracted, cloudbuild, pomE, dockerfileE, ret, consulted,
                   tempFile, l, i, executed, outcomes, execErr, teardowns>>

\* Root after Execute: both teardowns are deferred, then the error is looked at
RootDefer ==
    /\ pc = "executed"
    /\ deferred' = <<"Sample.DeleteCloudContainerImage", "Service.Delete">>
    /\ IF execErr # NoErr
       THEN /\ rootErr' = Wrap("Lifecycle.Execute building and deploying sample to Cloud Run", execErr)
            /\ pc' = "unwind"
       ELSE /\ rootErr' = rootErr
            /\ pc' = "identToken"
    /\ UNCHANGED <<asmVars, env, readme, extracted, cloudbuild, pomE, dockerfileE, ret, consulted,
                   tempFile, l, i, executed, outcomes, execErr, teardowns>>

\* Root gets the identity token
RootIdentToken ==
    /\ pc = "identToken"
    /\ \E run \in {""} \cup RunErrors :
         IF ExecCommand(run) = NoErr
         THEN pc' = "serviceURL" /\ rootErr' = rootErr
         ELSE /\ pc' = "unwind"
              /\ rootErr' = Wrap("util.ExecCommand getting identity token for gcloud auhtorized account",
                                 ExecCommand(run))
    /\ UNCHANGED <<asmVars, env, readme, extracted, cloudbuild, pomE, dockerfileE, ret, consulted,
                   tempFile, l, i, executed, outcomes, execErr, deferred, teardowns>>

\* Root gets the URL of the service
RootServiceURL ==
    /\ pc = "serviceURL"
    /\ \E run \in {""} \cup RunErrors :
         IF ExecCommand(run) = NoErr
         THEN pc' = "validate" /\ rootErr' = rootErr
         ELSE /\ pc' = "unwind"
              /\ rootErr' = <<"Service.URL", "getting Cloud Run Service URL">> \o ExecCommand(run)
    /\ UNCHANGED <<asmVars, env, readme, extracted, cloudbuild, pomE, dockerfileE, ret, consulted,
                   tempFile, l, i, executed, outcomes, execErr, deferred, teardowns>>

\* Root validates the endpoints and returns
RootValidate ==
    /\ pc = "validate"
    /\ \E v \in {"error", "failed", "passed"} :
         rootErr' = IF v = "error" THEN <<"util.ValidateEndpoints", "request">>
                    ELSE IF v = "failed" THEN <<"all tests did not pass">>
                    ELSE NoErr
    /\ pc' = "unwind"
    /\ UNCHANGED <<asmVars, env, readme, extracted, cloudbuild, pomE, dockerfileE, ret, consulted,
                   tempFile, l, i, executed, outcomes, execErr, deferred, teardowns>>

\* Root is returning: the deferred call registered last runs; its error is dropped
RunDeferred ==
    /\ pc = "unwind"
    /\ deferred # <<>>
    /\ teardowns' = Append(teardowns, Head(deferred))
    /\ deferred' = Tail(deferred)
    /\ UNCHANGED <<asmVars, pc, env, readme, extracted, cloudbuild, pomE, dockerfileE, ret, consulted,
                   tempFile, l, i, executed, outcomes, execErr, rootErr>>

\* Root has returned
RootReturn ==
    /\ pc = "unwind"
    /\ deferred = <<>>
    /\ pc' = "returned"
    /\ UNCHANGED <<asmVars, env, readme, extracted, cloudbuild, pomE, dockerfileE, ret, consulted,
                   tempFile, l, i, executed, outcomes, execErr, deferred, teardowns, rootErr>>

NextRoot ==
    \/ RootSetup
    \/ ExecuteStep
    \/ ExecuteReturn
    \/ RootDefer
    \/ RootIdentToken
    \/ RootServiceURL
    \/ RootValidate
    \/ RunDeferred
    \/ RootReturn

SpecRoot == InitRoot /\ [][NextRoot]_vars

----------------------------------------------------------------------------
(* replaceServiceName applied to a command *)

\* the variable the README's author may name the service with, and a value of it
serviceNameEnv == <<"C","L","O","U","D","_","R","U","N","_","S","E","R","V","I","C","E","_","N","A","M","E">>
OldService == <<"o","l","d">>

\* the environments of replaceServiceName: the variable unset, the variable set
ReplaceEnvs == {NoEnv, [n \in {serviceNameEnv} |-> OldService]}

\* the programs of the commands
Programs == {<<"g","c","l","o","u","d">>, <<"/","b","i","n","/","g","c","l","o","u","d">>, <<"e","c","h","o">>}

\* the arguments of the commands
ArgTokens == {<<"r","u","n">>, <<"d","e","p","l","o","y">>, <<"u","p","d","a","t","e">>, <<"-","-","x">>, <<"a">>, OldService, <<>>}

InitReplace ==
    /\ pc = "replace"
    /\ env \in ReplaceEnvs
    /\ program \in Programs
    /\ arguments \in SeqsUpTo(ArgTokens, MaxArgs)
    /\ argsIn = arguments
    /\ codeBlock = <<>>
    /\ commands = NoCommands
    /\ parsed = NoParse
    /\ NoSubstitution
    /\ readme = NoReadme
    /\ cloudbuild = NoCloudBuild
    /\ pomE = FALSE
    /\ dockerfileE = FALSE
    /\ l = <<>>
    /\ Idle

\* replaceServiceName is called on the command and returns
ReplaceServiceName ==
    /\ pc = "replace"
    /\ arguments' = replaceServiceName(program, arguments, ServiceName, env)
    /\ pc' = "replaced"
    /\ UNCHANGED <<env, readme, extracted, cloudbuild, pomE, dockerfileE, ret, consulted,
                   tempFile, l, i, executed, outcomes, execErr, deferred, teardowns, rootErr,
                   codeBlock, commands, parsed, program, argsIn, earlier, text, once, twice>>

NextReplace == ReplaceServiceName

SpecReplace == InitReplace /\ [][NextReplace]_vars

----------------------------------------------------------------------------
(* toCommands and extractLifecycle applied to a code block *)

\* the environments of the assembly: no variable set, a variable whose value
\* holds a space
SpacedEnv == [n \in {<<"V">>} |-> <<"a"," ","b">>]
AssembleEnvs == {NoEnv, SpacedEnv}

\* the lines of the code blocks
HiLine == <<"e","c","h","o"," "," ","h","i">>
VarLine == <<"e","c","h","o"," ","$","V">>
SubmitLine == <<"g","c","l","o","u","d"," ","b","u","i","l","d","s"," ","s","u","b","m","i","t">>
DeployLine == <<"g","c","l","o","u","d"," ","r","u","n"," ","d","e","p","l","o","y"," ","o","l","d"," ","-","-","i","m","a","g","e","=","g","c","r",".","i","o","/","a","/","b">>
TwoURLLine == <<"d","o","c","k","e","r"," ","t","a","g"," ","g","c","r",".","i","o","/","a","/","b"," ","g","c","r",".","i","o","/","c","/","d">>
UnsetLine == <<"$","U">>
BlockLines == {EchoLine, ContLine, BlankLine, HiLine, VarLine, SubmitLine, DeployLine, TwoURLLine,
               UnsetLine}

\* the README that holds the code block under a code tag
TaggedDoc(cb) == <<TagLine, Fence3>> \o cb \o <<Fence3>>

\* the code blocks a README can hold before the last one
EarlierBlocks == {<<DeployLine, HiLine>>}

\* the README that holds the code blocks, each under a code tag
RECURSIVE TaggedDocs(_)
TaggedDocs(bs) == IF bs = <<>> THEN <<>> ELSE TaggedDoc(Head(bs)) \o TaggedDocs(Tail(bs))

InitAssemble ==
    /\ pc = "assemble"
    /\ env \in AssembleEnvs
    /\ codeBlock \in SeqsUpTo(BlockLines, MaxBlockLen)
    /\ commands = NoCommands
    /\ parsed = NoParse
    /\ program = <<>>
    /\ arguments = <<>>
    /\ argsIn = <<>>
    /\ NoSubstitution
    /\ readme = NoReadme
    /\ cloudbuild = NoCloudBuild
    /\ pomE = FALSE
    /\ dockerfileE = FALSE
    /\ l = <<>>
    /\ Idle

\* toCommands is called on the code block and returns
ToCommands ==
    /\ pc = "assemble"
    /\ commands' = toCommands(codeBlock, ServiceName, GcrURL, env)
    /\ pc' = "assembled"
    /\ UNCHANGED <<env, readme, extracted, cloudbuild, pomE, dockerfileE, ret, consulted,
                   tempFile, l, i, executed, outcomes, execErr, deferred, teardowns, rootErr,
                   codeBlock, parsed, program, arguments, argsIn, earlier, text, once, twice>>

\* extractLifecycle is called on a README that holds the code block, after
\* other code blocks or none, and returns
ExtractLifecycle ==
    /\ pc = "assembled"
    /\ \E bs \in SeqsUpTo(EarlierBlocks, MaxEarlier) :
         /\ earlier' = bs
         /\ parsed' = extractLifecycle(TaggedDocs(Append(bs, codeBlock)), FALSE,
                                      ServiceName, GcrURL, env)
    /\ pc' = "parsed"
    /\ UNCHANGED <<env, readme, extracted, cloudbuild, pomE, dockerfileE, ret, consulted,
                   tempFile, l, i, executed, outcomes, execErr, deferred, teardowns, rootErr,
                   codeBlock, commands, program, arguments, argsIn, text, once, twice>>

NextAssemble == ToCommands \/ ExtractLifecycle

SpecAssemble == InitAssemble /\ [][NextAssemble]_vars

----------------------------------------------------------------------------
(* The registry-URL substitution applied to a line, and to its result *)

\* the pieces the lines are made of
Pieces == {<<"g","c","r",".","i","o","/","a","/","b">>, <<"g","c","r",".","i","o","/">>, <<"c">>, <<"/">>, <<" ">>}

\* the lines made of at most n pieces
RECURSIVE LinesOf(_)
LinesOf(n) ==
    IF n = 0 THEN {<<>>}
    ELSE LinesOf(n - 1) \cup {s \o p : s \in LinesOf(n - 1), p \in Pieces}

InitSubst ==
    /\ pc = "substitute"
    /\ env = NoEnv
    /\ text \in LinesOf(MaxPieces)
    /\ once = <<>>
    /\ twice = <<>>
    /\ earlier = <<>>
    /\ codeBlock = <<>>
    /\ commands = NoCommands
    /\ parsed = NoParse
    /\ program = <<>>
    /\ arguments = <<>>
    /\ argsIn = <<>>
    /\ readme = NoReadme
    /\ cloudbuild = NoCloudBuild
    /\ pomE = FALSE
    /\ dockerfileE = FALSE
    /\ l = <<>>
    /\ Idle

\* the registry URLs of the line are replaced, as toCommands does
Substitute ==
    /\ pc = "substitute"
    /\ once' = ReplaceGCRURL(text, GcrURL)
    /\ pc' = "substituted"
    /\ UNCHANGED <<env, readme, extracted, cloudbuild, pomE, dockerfileE, ret, consulted,
                   tempFile, l, i, executed, outcomes, execErr, deferred, teardowns, rootErr,
                   codeBlock, commands, parsed, program, arguments, argsIn, earlier, text, twice>>

\* the registry URLs of the substituted line are replaced
SubstituteAgain ==
    /\ pc = "substituted"
    /\ twice' = ReplaceGCRURL(once, GcrURL)
    /\ pc' = "resubstituted"
    /\ UNCHANGED <<env, readme, extracted, cloudbuild, pomE, dockerfileE, ret, consulted,
                   tempFile, l, i, executed, outcomes, execErr, deferred, teardowns, rootErr,
                   codeBlock, commands, parsed, program, arguments, argsIn, earlier, text, once>>

NextSubst == Substitute \/ SubstituteAgain

SpecSubst == InitSubst /\ [][NextSubst]_vars

----------------------------------------------------------------------------
(* Properties of NewLifecycle, checked under Spec *)

\* NewLifecycle has returned
Resolved == pc \in {"resolved", "cleaned"}

\* what parsing the README on disk gives
ReadmeParse == parseREADME(readme, ServiceName, GcrURL, env)

\* the sources consulted, without the errors
Sources == [k \in 1..Len(consulted) |-> consulted[k].source]

\* the README on disk can be read to its end and no line of it holds the code tag
UntaggedReadme ==
    /\ readme.exists
    /\ readme.openOK
    /\ ~readme.scanErr
    /\ \A k \in 1..Len(readme.lines) : ~Contains(readme.lines[k], codeTag)

\* the default Lifecycle of the sample directory
DefaultLifecycle ==
    IF pomE /\ ~dockerfileE
    THEN buildDefaultJavaLifecycle(ServiceName, GcrURL)
    ELSE buildDefaultLifecycle(ServiceName, GcrURL)

\* C1: NewLifecycle goes through cloudbuild.yaml, the README and the defaults
\* in this order and returns the Lifecycle of the first source that succeeds:
\* with a cloudbuild.yaml it looks at nothing else, and with a README that
\* yields commands it does not use the defaults.
C1_SourceOrder ==
    pc \in {"resolved", "cleaned", "panicked"} =>
        /\ Sources \in {<<"cloudbuild">>, <<"readme">>, <<"readme", "defaults">>, <<"defaults">>}
        /\ cloudbuild.exists => Sources = <<"cloudbuild">>
        /\ (cloudbuild.exists /\ Resolved /\ ret.err = NoErr) =>
               ret.lifecycle = buildCloudBuildConfigLifecycle(TempName, RunRegion, CloudBuildConfSubs)
        /\ (~cloudbuild.exists /\ readme.exists) => Sources[1] = "readme"
        /\ (~cloudbuild.exists /\ readme.exists /\ ReadmeParse.err = NoErr /\ ReadmeParse.lifecycle # <<>>) =>
               /\ Sources = <<"readme">>
               /\ ret.err = NoErr
               /\ ret.lifecycle = ReadmeParse.lifecycle
        /\ (~cloudbuild.exists /\ ~readme.exists) =>
               Sources = <<"defaults">> /\ ret.lifecycle = DefaultLifecycle

\* NewLifecycle used the cloudbuild.yaml of a directory whose README yields commands
C1_Witness ==
    /\ pc = "resolved"
    /\ cloudbuild.exists
    /\ ret.err = NoErr
    /\ Len(ret.lifecycle) = 1
    /\ readme.exists
    /\ ReadmeParse.err = NoErr
    /\ ReadmeParse.lifecycle # <<>>
    /\ Sources = <<"cloudbuild">>

\* C2: when the resolver of an existing cloudbuild.yaml returns an error, or
\* parsing an existing README returns an error other than
\* errNoReadmeCodeBlocksFound, NewLifecycle returns that error (wrapped) and no
\* Lifecycle, and consults no later source.
C2_FatalErrorAborts ==
    Resolved =>
        /\ (cloudbuild.exists /\ consulted[1].err # NoErr) =>
               /\ ret.err = Wrap("lifecycle.getCloudBuildConfigLifecycle", consulted[1].err)
               /\ ret.lifecycle = <<>>
               /\ Sources = <<"cloudbuild">>
        /\ (cloudbuild.exists /\ (~cloudbuild.readOK \/ ~cloudbuild.yamlOK)) =>
               consulted[1].err # NoErr
        /\ (/\ ~cloudbuild.exists
            /\ readme.exists
            /\ ReadmeParse.err # NoErr
            /\ ~ErrorsIs(ReadmeParse.err, errNoReadmeCodeBlocksFound)) =>
               /\ ret.err = Wrap("lifecycle.parseREADME", ReadmeParse.err)
               /\ ret.lifecycle = <<>>
               /\ Sources = <<"readme">>

\* the resolver of cloudbuild.yaml failed in a directory whose README yields commands
C2_Witness ==
    /\ pc = "resolved"
    /\ cloudbuild.exists
    /\ consulted[1].err # NoErr
    /\ ret.err # NoErr
    /\ readme.exists
    /\ ReadmeParse.err = NoErr
    /\ ReadmeParse.lifecycle # <<>>

\* C3: with no cloudbuild.yaml and a README none of whose lines holds the code
\* tag, parsing the README gives errNoReadmeCodeBlocksFound and NewLifecycle
\* returns no error and the default Lifecycle.
C3_NoCodeBlocksDeclines ==
    (Resolved /\ ~cloudbuild.exists /\ UntaggedReadme) =>
        /\ consulted[1] = Consulted("readme", <<errNoReadmeCodeBlocksFound>>)
        /\ Sources = <<"readme", "defaults">>
        /\ ret.err = NoErr
        /\ ret.lifecycle = DefaultLifecycle
        /\ ~ret.cleanup

\* NewLifecycle fell back to the defaults for a README with an untagged code block
C3_Witness ==
    /\ pc = "resolved"
    /\ ~cloudbuild.exists
    /\ UntaggedReadme
    /\ readme.lines = <<Fence3, EchoLine, Fence3>>
    /\ ret.err = NoErr
    /\ Len(ret.lifecycle) = 2

\* C4: when NewLifecycle returns without error the Lifecycle holds at least
\* one command; a README whose tagged code blocks hold no command is not a
\* success.
C4_NeverEmptyOnSuccess ==
    (Resolved /\ ret.err = NoErr) => Len(ret.lifecycle) >= 1

\* C5: once NewLifecycle has returned, a temporary file that is on disk is
\* one the cleanup callback in the caller's hands deletes.
C5_TempFileHasCleanup ==
    (pc = "resolved" /\ tempFile = "present") => ret.cleanup

----------------------------------------------------------------------------
(* Properties of Lifecycle.Execute and Root, checked under SpecRoot *)

\* the indices of the non-nil commands of l, in order
NonNilIndices == SelectSeq([k \in 1..Len(l) |-> k], LAMBDA k : ~l[k].isNil)

\* C6: Execute is fail-fast: no command is executed after one that failed,
\* the error Execute returns wraps the error of the command that failed, and
\* Execute returns nil only if every non-nil command succeeded.
C6_FailFast ==
    /\ \A k \in 1..(Len(outcomes) - 1) : outcomes[k] = NoErr
    /\ (outcomes # <<>> /\ outcomes[Len(outcomes)] # NoErr) => pc # "execute"
    /\ pc = "executed" =>
         /\ execErr # NoErr =>
              /\ outcomes # <<>>
              /\ outcomes[Len(outcomes)] # NoErr
              /\ execErr = Wrap("executing Lifecycle command", outcomes[Len(outcomes)])
         /\ execErr = NoErr =>
              /\ \A k \in 1..Len(outcomes) : outcomes[k] = NoErr
              /\ Len(outcomes) = Len(NonNilIndices)

\* Execute returned the error of a command that non-nil commands follow
C6_Witness ==
    /\ pc = "executed"
    /\ execErr # NoErr
    /\ \E k \in (i + 1)..Len(l) : ~l[k].isNil
    /\ Len(executed) >= 2

\* C7: Execute hands the non-nil commands to the executor in list order, each
\* at most once, and skips the nil entries; when it returns nil every non-nil
\* command has been executed exactly once.
C7_InOrderOnce ==
    /\ Len(executed) <= Len(NonNilIndices)
    /\ executed = SubSeq(NonNilIndices, 1, Len(executed))
    /\ Len(outcomes) = Len(executed)
    /\ (pc = "executed" /\ execErr = NoErr) => executed = NonNilIndices
    /\ (pc = "executed" /\ NonNilIndices = <<>>) => execErr = NoErr

\* Execute returned nil for a Lifecycle with a nil entry between two commands
C7_Witness ==
    /\ pc = "executed"
    /\ execErr = NoErr
    /\ Len(l) = 3
    /\ l[2].isNil
    /\ executed = <<1, 3>>

\* the teardown calls of Root
Teardowns == {"Service.Delete", "Sample.DeleteCloudContainerImage"}

\* the number of times the teardown t has run
TeardownCount(t) == Cardinality({k \in 1..Len(teardowns) : teardowns[k] = t})

\* Execute was called and Root has returned
ReturnedAfterExecute == pc = "returned" /\ rootErr # <<"sample.NewSample">>

\* C8: once Execute has returned, both teardowns run exactly once before Root
\* returns, whatever Execute and the later steps returned.
C8_TeardownOnce ==
    /\ \A t \in Teardowns : TeardownCount(t) <= 1
    /\ ReturnedAfterExecute => \A t \in Teardowns : TeardownCount(t) = 1
    /\ pc \in {"root", "execute", "executed"} => teardowns = <<>>

\* Root returned the error of Execute after both teardowns
C8_Witness ==
    /\ ReturnedAfterExecute
    /\ execErr # NoErr
    /\ Len(teardowns) = 2

----------------------------------------------------------------------------
(* Properties of extractCodeBlocks, checked under SpecExtract *)

\* the document and its length
Lines == readme.lines
NLines == Len(readme.lines)

\* s without the white space it starts and ends with
RECURSIVE Bare(_)
Bare(s) ==
    IF s = <<>> THEN s
    ELSE IF s[1] \in SpaceChars THEN Bare(Tail(s))
    ELSE IF s[Len(s)] \in SpaceChars THEN Bare(SubSeq(s, 1, Len(s) - 1))
    ELSE s

\* the line of the closing fence of the block whose code tag is line t and
\* whose opening fence is line t + 1; 0 when no line closes it
CloseOf(t) ==
    LET closers == {j \in (t + 2)..NLines :
                      MatchFenceEnd(Bare(Lines[j]), Cardinality(Backticks(Lines[t + 1])))}
    IN  IF closers = {} THEN 0 ELSE Min(closers)

\* the code tag at line t is followed by a code block that is opened and closed
WellTagged(t) ==
    /\ t + 1 <= NLines
    /\ MatchFenceStart(Lines[t + 1])
    /\ CloseOf(t) > 0

\* line k holds the code tag and lies outside the tagged code blocks before it
TopTag[k \in 1..NLines] ==
    /\ Contains(Lines[k], codeTag)
    /\ \A t \in 1..(k - 1) : TopTag[t] => (WellTagged(t) /\ CloseOf(t) < k)

\* the lines of the code tags of the document, in order
TaggedAt == SelectSeq([k \in 1..NLines |-> k], LAMBDA k : TopTag[k])

\* every code tag of the document is followed by a well-formed code block
WellFormedDoc == \A t \in 1..NLines : TopTag[t] => WellTagged(t)

\* the lines between the fences of the b-th tagged block, as they are in the document
RawBlock(b) == SubSeq(Lines, TaggedAt[b] + 2, CloseOf(TaggedAt[b]) - 1)

\* extractCodeBlocks has returned for a document read to its end
Extracted == pc = "extracted" /\ ~readme.scanErr

\* C9 as stated: for a document of N well-formed tagged code blocks,
\* extractCodeBlocks returns N blocks in document order, each holding exactly
\* the lines between its fences.
C9_ExactLines ==
    (Extracted /\ WellFormedDoc) =>
        /\ extracted.err = NoErr
        /\ extracted.blocks = [b \in 1..Len(TaggedAt) |-> RawBlock(b)]

\* C9: for a document of N well-formed tagged code blocks, extractCodeBlocks
\* returns N blocks in document order, each holding the lines between its
\* fences in order, every line without the white space around it and not
\* joined with another; untagged code blocks are in no block.
C9_TrimmedLines ==
    (Extracted /\ WellFormedDoc) =>
        /\ extracted.err = NoErr
        /\ Len(extracted.blocks) = Len(TaggedAt)
        /\ \A b \in 1..Len(TaggedAt) :
             /\ Len(extracted.blocks[b]) = Len(RawBlock(b))
             /\ \A j \in 1..Len(RawBlock(b)) : extracted.blocks[b][j] = Bare(RawBlock(b)[j])

\* two tagged blocks were extracted, one with a line that has white space around it
C9_Witness ==
    /\ Extracted
    /\ WellFormedDoc
    /\ Len(TaggedAt) = 2
    /\ Len(extracted.blocks) = 2
    /\ \E b \in 1..2 : \E j \in 1..Len(RawBlock(b)) : RawBlock(b)[j] # Bare(RawBlock(b)[j])

\* the errors of a malformed tagged code block
BlockErrors == {errEOFAfterCodeTag, errCodeBlockStartNotFound, errCodeBlockNotClosed}

\* err is the error b and none of the other errors of a malformed block
IsOnly(err, b) == ErrorsIs(err, b) /\ \A o \in BlockErrors \ {b} : ~ErrorsIs(err, o)

\* C10: after a code tag, the end of the document gives errEOFAfterCodeTag, a
\* line that is no opening fence gives errCodeBlockStartNotFound and a block
\* that no line closes gives errCodeBlockNotClosed; no blocks are returned.
C10_MalformedBlockErrors ==
    Extracted =>
        \A t \in 1..NLines :
            (TopTag[t] /\ ~WellTagged(t)) =>
                /\ extracted.blocks = <<>>
                /\ t = NLines => IsOnly(extracted.err, errEOFAfterCodeTag)
                /\ (t < NLines /\ ~MatchFenceStart(Lines[t + 1])) =>
                       IsOnly(extracted.err, errCodeBlockStartNotFound)
                /\ (t < NLines /\ MatchFenceStart(Lines[t + 1])) =>
                       IsOnly(extracted.err, errCodeBlockNotClosed)

\* the document ends right after a code tag that follows a complete tagged block
C10_Witness ==
    /\ Extracted
    /\ NLines > 0
    /\ TopTag[NLines]
    /\ \E t \in 1..(NLines - 1) : TopTag[t]
    /\ extracted.blocks = <<>>
    /\ ErrorsIs(extracted.err, errEOFAfterCodeTag)

----------------------------------------------------------------------------
(* Properties of replaceServiceName, checked under SpecReplace *)

\* replaceServiceName has returned
Replaced == pc = "replaced"

\* the command is a gcloud command, and one with the sub-verb run
GcloudCmd == \E k \in 1..(Len(program) - 5) : SubSeq(program, k, k + 5) = <<"g","c","l","o","u","d">>
RunCmd == GcloudCmd /\ \E k \in 1..Len(argsIn) : argsIn[k] = <<"r","u","n">>

\* the arguments that equal the expansion of $CLOUD_RUN_SERVICE_NAME
SentinelAt ==
    {k \in 1..Len(argsIn) :
        argsIn[k] = (IF serviceNameEnv \in DOMAIN env THEN env[serviceNameEnv] ELSE <<>>)}

\* the verbs deploy and update that have an argument after them
VerbsAt == {k \in 1..(Len(argsIn) - 1) : argsIn[k] \in {<<"d","e","p","l","o","y">>, <<"u","p","d","a","t","e">>}}

\* the arguments that do not contain "--"
PlainAt ==
    {k \in 1..Len(argsIn) :
        ~\E j \in 1..(Len(argsIn[k]) - 1) : argsIn[k][j] = "-" /\ argsIn[k][j + 1] = "-"}

\* argument k, and no other, has become the service name
OnlyReplaced(k) == arguments = [argsIn EXCEPT ![k] = ServiceName]

\* C11: a command that is not a gcloud command with the sub-verb run keeps
\* every argument, whatever the environment holds
C11_OnlyRunCommandsChange ==
    (Replaced /\ ~RunCmd) => arguments = argsIn

\* C12: in a gcloud run command with an argument that equals the expansion of
\* $CLOUD_RUN_SERVICE_NAME (the variable being set), such an argument and
\* nothing else becomes the service name, wherever it sits and whichever
\* verbs are present
C12_SentinelReplaced ==
    (Replaced /\ RunCmd /\ serviceNameEnv \in DOMAIN env /\ SentinelAt # {})
        => \E k \in SentinelAt : OnlyReplaced(k)

C14_LastPlainArgument ==
    (Replaced /\ RunCmd /\ SentinelAt = {} /\ VerbsAt = {})
        => /\ PlainAt # {}
           /\ OnlyReplaced(Max(PlainAt))
           /\ \A k \in 1..Len(argsIn) : k \notin PlainAt => arguments[k] = argsIn[k]

\* flags follow the last plain argument, which changed
C14_Witness ==
    /\ Replaced /\ RunCmd /\ SentinelAt = {} /\ VerbsAt = {}
    /\ Max(PlainAt) < Len(argsIn)
    /\ arguments[Max(PlainAt)] = ServiceName
    /\ arguments[Len(argsIn)] = argsIn[Len(argsIn)]

----------------------------------------------------------------------------
(* Properties of toCommands, checked under SpecAssemble *)

\* toCommands has returned
Assembled == pc \in {"assembled", "parsed"}

\* the line ends in the continuation character
EndsInCont(s) == s # <<>> /\ s[Len(s)] = "\\"

\* the k-th smallest element of a set of numbers
Nth(S, k) == CHOOSE x \in S : Cardinality({y \in S : y < x}) = k - 1

\* the pieces of s between its spaces
SpaceSplit(s) ==
    LET sp == {k \in 1..Len(s) : s[k] = " "}
        from(k) == IF k = 1 THEN 1 ELSE Nth(sp, k - 1) + 1
        to(k) == IF k = Cardinality(sp) + 1 THEN Len(s) ELSE Nth(sp, k) - 1
    IN  [k \in 1..(Cardinality(sp) + 1) |-> SubSeq(s, from(k), to(k))]

\* the white-space separated words of s
Fields(s) == SelectSeq(SpaceSplit(s), LAMBDA w : w # <<>>)

\* the program and the arguments of a command, as one list
Tokens(c) == <<c.name>> \o c.args

\* the block is one line that is a whole command, and that line expanded
OneLine == Len(codeBlock) = 1 /\ codeBlock[1] # <<>> /\ ~EndsInCont(codeBlock[1])
Expanded == ExpandEnv(codeBlock[1], env)

\* where a registry URL gcr.io/<owner>/<name> starts in a token, and the token
\* with its registry URL replaced
URLStarts(tok) ==
    {p \in 1..(Len(tok) - 6) :
        /\ SubSeq(tok, p, p + 6) = <<"g","c","r",".","i","o","/">>
        /\ \E q \in (p + 8)..(Len(tok) - 1) : tok[q] = "/"}
URLReplaced(tok) ==
    IF URLStarts(tok) = {} THEN tok
    ELSE SubSeq(tok, 1, Nth(URLStarts(tok), 1) - 1) \o GcrURL

\* C15: the command of a line (here a line of a program other than gcloud) has
\* the tokens of the line, each token that holds a registry URL with the
\* provided URL in its place and every other token unchanged and in its
\* place, however many tokens hold a URL
C15_EveryURLTokenReplaced ==
    (Assembled /\ OneLine /\ SpaceSplit(Expanded)[1] # <<"g","c","l","o","u","d">>) =>
        /\ commands.err = NoErr
        /\ Len(commands.cmds) = 1
        /\ Tokens(commands.cmds[1]) =
               [k \in 1..Len(SpaceSplit(Expanded)) |-> URLReplaced(SpaceSplit(Expanded)[k])]

\* every line that ends in the continuation character is followed by a line
\* that is not blank
WellContinued(b) ==
    \A k \in 1..Len(b) : EndsInCont(b[k]) => (k < Len(b) /\ b[k + 1] # <<>>)

\* the block with every continued line written on a single line
RECURSIVE JoinedLines(_)
JoinedLines(b) ==
    IF b = <<>> THEN <<>>
    ELSE IF Len(b) >= 2 /\ EndsInCont(b[1])
         THEN JoinedLines(<<SubSeq(b[1], 1, Len(b[1]) - 1) \o b[2]>> \o SubSeq(b, 3, Len(b)))
         ELSE <<b[1]>> \o JoinedLines(Tail(b))

\* C16: a line that ends in a backslash is joined with the lines that follow
\* it, backslashes removed, until the joined line does not end in one; the
\* block gives one command for each joined line, the same commands as the
\* block with the joined text written on single lines
C16_JoinedAsOneLine ==
    (Assembled /\ WellContinued(codeBlock)) =>
        /\ commands.err = NoErr
        /\ commands = toCommands(JoinedLines(codeBlock), ServiceName, GcrURL, env)
        /\ Len(commands.cmds) = Len(SelectSeq(JoinedLines(codeBlock), LAMBDA s : s # <<>>))

\* three lines with two continuation points gave one command
C16_Witness ==
    /\ Assembled
    /\ codeBlock = <<ContLine, ContLine, EchoLine>>
    /\ commands.err = NoErr
    /\ Len(commands.cmds) = 1
    /\ Tokens(commands.cmds[1]) = <<<<"e","c","h","o">>, <<"a">>, <<"e","c","h","o">>, <<"a">>, <<"e","c","h","o">>, <<"h","i">>>>

\* C17: when the last line of the block ends in the continuation character,
\* toCommands returns the end-of-code-block error and no commands, and
\* extractLifecycle returns an error that holds it
C17_EndDuringContinuation ==
    (Assembled /\ codeBlock # <<>> /\ EndsInCont(codeBlock[Len(codeBlock)])) =>
        /\ commands.cmds = <<>>
        /\ commands.err = <<errCodeBlockEndAfterLineCont>>
        /\ pc = "parsed" => ErrorsIs(parsed.err, errCodeBlockEndAfterLineCont)

\* a whole command precedes the unfinished one and extractLifecycle failed
C17_Witness ==
    /\ pc = "parsed"
    /\ codeBlock = <<EchoLine, ContLine>>
    /\ commands.cmds = <<>>
    /\ ErrorsIs(parsed.err, errCodeBlockEndAfterLineCont)

\* the expanded line holds nothing that the substitutions look for: no
\* registry URL, and it is not a gcloud command with the sub-verb run or
\* with an argument equal to the expansion of $CLOUD_RUN_SERVICE_NAME
NoTarget ==
    LET toks == SpaceSplit(Expanded)
        sentinel == IF serviceNameEnv \in DOMAIN env THEN env[serviceNameEnv] ELSE <<>>
    IN  /\ \A k \in 1..Len(toks) : URLStarts(toks[k]) = {}
        /\ \/ \A p \in 1..(Len(toks[1]) - 5) : SubSeq(toks[1], p, p + 5) # <<"g","c","l","o","u","d">>
           \/ \A k \in 2..Len(toks) : toks[k] # <<"r","u","n">> /\ toks[k] # sentinel

\* C18 as claimed: a block of one line without continuation and substitution
\* target gives one command whose program and arguments are the white-space
\* separated words of the expanded line
C18_FieldsOfExpandedLine ==
    (Assembled /\ OneLine /\ NoTarget) =>
        /\ commands.err = NoErr
        /\ Len(commands.cmds) = 1
        /\ Tokens(commands.cmds[1]) = Fields(Expanded)

\* C18: a block of one line without continuation and substitution target
\* gives one command: its program is the first piece of the expanded line
\* split at every single space, its arguments are the other pieces, after
\* --quiet when the program is gcloud; the line is expanded before it is split
C18_SplitOfExpandedLine ==
    (Assembled /\ OneLine /\ NoTarget) =>
        /\ commands.err = NoErr
        /\ Len(commands.cmds) = 1
        /\ commands.cmds[1].name = SpaceSplit(Expanded)[1]
        /\ commands.cmds[1].args =
               (IF SpaceSplit(Expanded)[1] = <<"g","c","l","o","u","d">> THEN <<<<"-","-","q","u","i","e","t">>>> ELSE <<>>)
               \o Tail(SpaceSplit(Expanded))

\* a variable whose value holds a space gave two arguments
C18_Witness ==
    /\ Assembled /\ OneLine /\ NoTarget
    /\ env = SpacedEnv
    /\ codeBlock = <<VarLine>>
    /\ commands.cmds = <<Command(<<"e","c","h","o">>, <<<<"a">>, <<"b">>>>)>>

\* a line that ends in the continuation character is followed by a blank line
BlankAfterCont ==
    \E k \in 1..(Len(codeBlock) - 1) : EndsInCont(codeBlock[k]) /\ codeBlock[k + 1] = <<>>

\* C20 as claimed: when a line ends in the continuation character and the
\* next line of the block is blank, toCommands returns the end-of-code-block
\* error and no command
C20_BlankDuringContinuation ==
    (Assembled /\ BlankAfterCont) =>
        /\ commands.cmds = <<>>
        /\ ErrorsIs(commands.err, errCodeBlockEndAfterLineCont)

\* the command lines of a block: a line that ends in the continuation
\* character is joined with the next line, and ends at a blank next line
RECURSIVE LogicalLines(_)
LogicalLines(b) ==
    IF b = <<>> THEN <<>>
    ELSE IF b[1] = <<>> THEN LogicalLines(Tail(b))
    ELSE IF EndsInCont(b[1]) /\ Len(b) >= 2
         THEN IF b[2] = <<>>
              THEN <<SubSeq(b[1], 1, Len(b[1]) - 1)>> \o LogicalLines(SubSeq(b, 3, Len(b)))
              ELSE LogicalLines(<<SubSeq(b[1], 1, Len(b[1]) - 1) \o b[2]>> \o SubSeq(b, 3, Len(b)))
         ELSE <<b[1]>> \o LogicalLines(Tail(b))

\* C20: when a line ends in the continuation character and the next line of
\* the block is blank, the continuation ends there without an error: the
\* line joined so far, its backslash removed, gives a command like any other
\* line (the block's last line not ending in the continuation character)
C20_BlankEndsContinuation ==
    (Assembled /\ BlankAfterCont /\ ~EndsInCont(codeBlock[Len(codeBlock)])) =>
        /\ commands.err = NoErr
        /\ commands.cmds =
               [k \in 1..Len(LogicalLines(codeBlock)) |->
                   LineCommand(LogicalLines(codeBlock)[k], ServiceName, GcrURL, env)]

\* the partial line before a blank line gave a command, and so did the line after
C20_Witness ==
    /\ Assembled
    /\ codeBlock = <<ContLine, BlankLine, EchoLine>>
    /\ commands.err = NoErr
    /\ commands.cmds = <<Command(<<"e","c","h","o">>, <<<<"a">>, <<>>>>), Command(<<"e","c","h","o">>, <<<<"h","i">>>>)>>

----------------------------------------------------------------------------
(* The defaults of NewLifecycle, checked under Spec *)

\* the commands of the defaults
MvnJibBuild ==
    Command(<<"m","v","n">>, <<<<"c","o","m","p","i","l","e">>, <<"c","o","m",".","g","o","o","g","l","e",".","c","l","o","u","d",".","t","o","o","l","s",":","j","i","b","-","m","a","v","e","n","-","p","l","u","g","i","n",":","2",".","0",".","0",":","b","u","i","l","d">>,
                      <<"-","D","i","m","a","g","e","=">> \o GcrURL>>)
GcloudBuildsSubmit ==
    Command(<<"g","c","l","o","u","d">>, <<<<"-","-","q","u","i","e","t">>, <<"b","u","i","l","d","s">>, <<"s","u","b","m","i","t">>, <<"-","-","t","a","g","=">> \o GcrURL>>)
GcloudRunDeploy ==
    Command(<<"g","c","l","o","u","d">>, <<<<"-","-","q","u","i","e","t">>, <<"r","u","n">>, <<"d","e","p","l","o","y">>, ServiceName, <<"-","-","i","m","a","g","e","=">> \o GcrURL,
                         <<"-","-","p","l","a","t","f","o","r","m","=","m","a","n","a","g","e","d">>>>)

\* C19: without cloudbuild.yaml, and with no README or a README without a
\* code tag, NewLifecycle returns no error and two commands: the mvn jib build
\* exactly when pom.xml exists and Dockerfile does not, else gcloud builds
\* submit, and then the same gcloud run deploy
C19_DefaultLifecycle ==
    (Resolved /\ ~cloudbuild.exists /\ (~readme.exists \/ UntaggedReadme)) =>
        /\ ret.err = NoErr
        /\ Len(ret.lifecycle) = 2
        /\ ret.lifecycle[1] = (IF pomE /\ ~dockerfileE THEN MvnJibBuild ELSE GcloudBuildsSubmit)
        /\ ret.lifecycle[2] = GcloudRunDeploy

\* a sample with pom.xml and Dockerfile got gcloud builds submit
C19_Witness ==
    /\ Resolved /\ ~cloudbuild.exists /\ ~readme.exists
    /\ pomE /\ dockerfileE
    /\ ret.lifecycle = <<GcloudBuildsSubmit, GcloudRunDeploy>>

----------------------------------------------------------------------------
(* Properties of extractLifecycle on a README of several code blocks, checked
   under SpecAssemble *)

\* extractLifecycle has returned
Parsed == pc = "parsed"

\* the code blocks of the README, in document order
ReadmeBlocks == Append(earlier, codeBlock)

\* the commands of the command lines of a block, in the order of the lines
BlockCommands(b) ==
    [k \in 1..Len(LogicalLines(b)) |-> LineCommand(LogicalLines(b)[k], ServiceName, GcrURL, env)]

\* the sequences of ss, one after the other
RECURSIVE ConcatAll(_)
ConcatAll(ss) == IF ss = <<>> THEN <<>> ELSE Head(ss) \o ConcatAll(Tail(ss))

\* C21: whenever extractLifecycle returns an error it returns no commands,
\* also when a block before the failing one was assembled
C21_NoCommandsOnError ==
    (Parsed /\ parsed.err # NoErr) => parsed.lifecycle = <<>>

\* C22: the Lifecycle of a README is the commands of its tagged blocks, block
\* after block in document order, the commands of a block in the order of its
\* command lines; none is dropped, doubled or moved
C22_ConcatenationInOrder ==
    (Parsed /\ parsed.err = NoErr) =>
        parsed.lifecycle =
            ConcatAll([b \in 1..Len(ReadmeBlocks) |-> BlockCommands(ReadmeBlocks[b])])

\* two blocks, the second with a continued line, gave four commands in order
C22_Witness ==
    /\ Parsed
    /\ parsed.err = NoErr
    /\ earlier = << <<DeployLine, HiLine>> >>
    /\ codeBlock = <<ContLine, EchoLine, SubmitLine>>
    /\ Len(parsed.lifecycle) = 4
    /\ [k \in 1..4 |-> parsed.lifecycle[k].name] = <<<<"g","c","l","o","u","d">>, <<"e","c","h","o">>, <<"e","c","h","o">>, <<"g","c","l","o","u","d">>>>
    /\ parsed.lifecycle[3].args = <<<<"a">>, <<"e","c","h","o">>, <<"h","i">>>>

----------------------------------------------------------------------------
(* Properties of extractCodeBlocks on nested fences, checked under SpecExtract *)

\* the number of backticks of a line
FenceLen(s) == Cardinality({k \in 1..Len(s) : s[k] = BQ})

\* the line of the code tag of the b-th block returned: the first line with
\* the code tag after the closing fence of the block before it; 0 when
\* there is none
BlockTag[b \in 1..Len(extracted.blocks)] ==
    LET from == IF b = 1 THEN 1 ELSE BlockTag[b - 1] + 3 + Len(extracted.blocks[b - 1])
        tags == {k \in from..NLines : Contains(Lines[k], codeTag)}
    IN  IF tags = {} THEN 0 ELSE Min(tags)

\* C23: the line that closes a block opened by a fence of k backticks has at
\* least k backticks, and a line of the body with fewer backticks is a line
\* of the block
C23_ShorterFenceIsContent ==
    (Extracted /\ extracted.err = NoErr) =>
        \A b \in 1..Len(extracted.blocks) :
            LET t == BlockTag[b]
                n == Len(extracted.blocks[b])
            IN  /\ t > 0
                /\ t + 2 + n <= NLines
                /\ FenceLen(Lines[t + 2 + n]) >= FenceLen(Lines[t + 1])
                /\ \A j \in 1..n :
                       FenceLen(Lines[t + 1 + j]) < FenceLen(Lines[t + 1]) =>
                           extracted.blocks[b][j] = Bare(Lines[t + 1 + j])

\* a block opened by four backticks holds a fence of three backticks
C23_Witness ==
    /\ Extracted
    /\ extracted.err = NoErr
    /\ Lines = <<TagLine, Fence4, Fence3, Fence4>>
    /\ extracted.blocks = << <<Fence3>> >>

----------------------------------------------------------------------------
(* Properties of toCommands on blank lines, flags and program names, checked
   under SpecAssemble *)

\* the lines of the block that are blank and do not follow a line that ends
\* in the continuation character, and the block without them
SkippedAt ==
    {k \in 1..Len(codeBlock) :
        codeBlock[k] = <<>> /\ (k = 1 \/ ~EndsInCont(codeBlock[k - 1]))}
WithoutBlanks ==
    LET kept == (1..Len(codeBlock)) \ SkippedAt
    IN  [j \in 1..Cardinality(kept) |-> codeBlock[Nth(kept, j)]]

\* C24: a blank line of a block gives no command and no failure: the block
\* gives what the block without its blank lines (those that do not follow a
\* continuation) gives
C24_BlankLinesSkipped ==
    pc = "assembled" => commands = toCommands(WithoutBlanks, ServiceName, GcrURL, env)

\* a blank line between two commands gave the two commands
C24_Witness ==
    /\ pc = "assembled"
    /\ codeBlock = <<EchoLine, BlankLine, EchoLine>>
    /\ commands.err = NoErr
    /\ commands.cmds = <<Command(<<"e","c","h","o">>, <<<<"h","i">>>>), Command(<<"e","c","h","o">>, <<<<"h","i">>>>)>>

\* the arguments of a command line: the pieces after the first of the line,
\* expanded and with its registry URLs replaced
OwnArgs(s) == Tail(SpaceSplit(ReplaceGCRURL(ExpandEnv(s, env), GcrURL)))

\* args are the arguments own, each one as it is or replaced by the service name
SameArgs(args, own) ==
    /\ Len(args) = Len(own)
    /\ \A j \in 1..Len(own) : args[j] \in {own[j], ServiceName}

\* C26: the arguments of a gcloud command are --quiet and then the arguments
\* of its line in their order; the arguments of a command of another program
\* are those of its line and nothing else
C26_CommonFlagsFirst ==
    (pc = "assembled" /\ commands.err = NoErr) =>
        /\ Len(commands.cmds) = Len(LogicalLines(codeBlock))
        /\ \A k \in 1..Len(commands.cmds) :
             LET c == commands.cmds[k]
                 own == OwnArgs(LogicalLines(codeBlock)[k])
             IN  IF c.name = <<"g","c","l","o","u","d">>
                 THEN /\ c.args # <<>>
                      /\ c.args[1] = <<"-","-","q","u","i","e","t">>
                      /\ SameArgs(Tail(c.args), own)
                 ELSE SameArgs(c.args, own)

\* a gcloud command got --quiet before its arguments, an echo command no flag
C26_Witness ==
    /\ pc = "assembled"
    /\ codeBlock = <<SubmitLine, EchoLine>>
    /\ commands.cmds = <<Command(<<"g","c","l","o","u","d">>, <<<<"-","-","q","u","i","e","t">>, <<"b","u","i","l","d","s">>, <<"s","u","b","m","i","t">>>>),
                         Command(<<"e","c","h","o">>, <<<<"h","i">>>>)>>

\* C30: every command of a Lifecycle made from a README has a program name
\* that is not empty
C30_ProgramNamed ==
    (Parsed /\ parsed.err = NoErr) =>
        \A k \in 1..Len(parsed.lifecycle) : parsed.lifecycle[k].name # <<>>

----------------------------------------------------------------------------
(* The registry-URL substitution applied twice, checked under SpecSubst *)

\* C25: the substitution applied to a line it has already rewritten, with
\* the same registry URL, changes nothing
C25_SubstitutionIdempotent ==
    pc = "resubstituted" => twice = once

\* a line of a registry URL and more text was rewritten, and rewritten again
C25_Witness ==
    /\ pc = "resubstituted"
    /\ text = <<"g","c","r",".","i","o","/","a","/","b","c"," ","/">>
    /\ once = GcrURL \o <<" ","/">>
    /\ twice = once

----------------------------------------------------------------------------
(* The Cloud Build config resolver on malformed configs, checked under Spec *)

\* NewLifecycle has ended, by a return or by a panic
Ended == pc \in {"resolved", "cleaned", "panicked"}

\* the config has no list of steps, or a step that is no map, has no list of
\* args, has an arg that is no string or has no name
Malformed(cfg) ==
    \/ ~cfg.hasSteps
    \/ \E k \in 1..Len(cfg.steps) :
          \/ ~cfg.steps[k].isMap
          \/ ~cfg.steps[k].argsOK
          \/ ~cfg.steps[k].nameOK
          \/ \E j \in 1..Len(cfg.steps[k].args) : ~cfg.steps[k].args[j].str

\* the Lifecycle is one gcloud builds submit command on the temporary config
\* with the substitutions flag
SubmitsTempConfig(lc) ==
    /\ Len(lc) = 1
    /\ lc[1].name = <<"g","c","l","o","u","d">>
    /\ \E a \in 1..(Len(lc[1].args) - 1) :
          lc[1].args[a] = <<"b","u","i","l","d","s">> /\ lc[1].args[a + 1] = <<"s","u","b","m","i","t">>
    /\ \E a \in 1..Len(lc[1].args) : lc[1].args[a] = <<"-","-","c","o","n","f","i","g","=">> \o TempName
    /\ \E a \in 1..Len(lc[1].args) :
          /\ Len(lc[1].args[a]) >= 16
          /\ SubSeq(lc[1].args[a], 1, 16) = <<"-","-","s","u","b","s","t","i","t","u","t","i","o","n","s","=">>

\* C27: for a cloudbuild.yaml that can be read, the resolver returns one
\* gcloud builds submit command on the rewritten temporary config, or an
\* error; a malformed config gives an error, and the resolution always returns
C27_MalformedConfigIsError ==
    (Ended /\ cloudbuild.exists /\ cloudbuild.readOK) =>
        /\ ~ret.panicked
        /\ ret.err = NoErr => SubmitsTempConfig(ret.lifecycle)
        /\ (cloudbuild.yamlOK /\ Malformed(cloudbuild.config)) => ret.err # NoErr

----------------------------------------------------------------------------
(* Frame and safety of replaceServiceName, checked under SpecReplace *)

\* the arguments the call has changed
ChangedAt == {k \in 1..Min({Len(argsIn), Len(arguments)}) : arguments[k] # argsIn[k]}

\* C28: replaceServiceName keeps the number and the order of the arguments
\* and replaces at most one of them; every other argument keeps its value
C28_AtMostOneReplaced ==
    Replaced =>
        /\ Len(arguments) = Len(argsIn)
        /\ Cardinality(ChangedAt) <= 1
        /\ \A k \in ChangedAt : arguments[k] = ServiceName

\* of two arguments that name the service by the variable, the first was replaced
C28_Witness ==
    /\ Replaced
    /\ program = <<"g","c","l","o","u","d">>
    /\ serviceNameEnv \in DOMAIN env
    /\ argsIn = <<OldService, <<"r","u","n">>, OldService>>
    /\ arguments = <<ServiceName, <<"r","u","n">>, OldService>>

\* the verb keywords
VerbKeywords == {<<"r","u","n">>, <<"d","e","p","l","o","y">>, <<"u","p","d","a","t","e">>}

\* C29: after replaceServiceName has rewritten a gcloud run command, the
\* arguments still hold every verb keyword they held: the service name has
\* not taken the place of run, deploy or update
C29_VerbsKept ==
    (Replaced /\ RunCmd /\ arguments # argsIn) =>
        \A k \in 1..Len(argsIn) : argsIn[k] \in VerbKeywords => arguments[k] = argsIn[k]

====
